---- MODULE Spec2Model ----
(***************************************************************************)
(* Model of the encrypted vault engine of the password manager             *)
(* (src/main.js): the persistence store, the key cache, the record cipher, *)
(* the vault IPC handlers, the Touch ID handlers and the batched decrypt    *)
(* pipeline; and of the unlock and lock handlers of the renderer           *)
(* (src/src/renderer.js) with the listeners of src/preload.js.             *)
(*                                                                         *)
(* Conventions.                                                            *)
(*  - A value that may be undefined (a missing store key, the result of a  *)
(*    call that may throw) is a sequence of length 0 or 1: <<>> is         *)
(*    undefined / thrown, <<v>> is the value v.                            *)
(*  - A text is a sequence of tokens.  'vault-check' is the one-token text *)
(*    <<"vault-check">>; JSON.stringify of a payload is the three-token    *)
(*    text <<"{", site, "}">>.                                             *)
(*  - PBKDF2 and AES-256-GCM are symbolic: a derived key names the         *)
(*    (password, salt) pair it was derived from, a ciphertext names the    *)
(*    key, the iv and the bytes of the plaintext, and a tag names the key, *)
(*    the iv, the ciphertext it authenticates and its length in bytes.     *)
(*    The key of a password is the key of that password without the NUL    *)
(*    characters at its end (the zero padding of the HMAC key).            *)
(*                                                                         *)
(* Specifications.                                                         *)
(*  - Spec: the vault handlers (create, unlock, save, delete, update,      *)
(*    clear, import) from a fresh install.                                 *)
(*  - SpecPipeline: one get-passwords call and its background loop over a  *)
(*    stored vault of up to MaxVault records, some of them saved under     *)
(*    another password, after a restart of the process (empty key cache).  *)
(*  - SpecPipelineLive: the same session with the fairness of the event    *)
(*    loop, over the stored vaults whose unreadable records come first.    *)
(*  - SpecAsync: the handlers that write the collection, import-passwords  *)
(*    taken in its two parts, before and after the await of its dialog.    *)
(*  - SpecTouch: the Touch ID handlers, each taken in its two parts,       *)
(*    before and after the await of the prompt, with create-vault and      *)
(*    save-password, from a fresh install.                                 *)
(*  - SpecFaults: the handlers called on whatever the store file holds at  *)
(*    startup (nothing, a vault, a damaged check envelope) and called      *)
(*    while the store file cannot be read or written.                      *)
(*  - SpecRenderer: the renderer's handleUnlock and handleLock with the    *)
(*    main process's unlock-vault, get-passwords and background loop, the  *)
(*    replies and the events reaching the renderer in the order sent.      *)
(*  - SpecCipher: encrypt, decrypt and decryptAsync called directly, the   *)
(*    envelope as it is or altered, the process restarted in between, next *)
(*    to a vault that is created and unlocked.                             *)
(*  - SpecCache: deriveKey, deriveKeyAsync and its pbkdf2 callbacks called *)
(*    directly in any order, on a cache one key below the limit of 100.    *)
(*  - SpecBulk: the same on a cache one key below the limit of 5000.       *)
(*  - SpecStore: delete-password and the handlers that only read the       *)
(*    store, on whatever collection and Touch ID keys the store holds.     *)
(*  - SpecReadOnly: the handlers that never write the store (the checks,   *)
(*    unlock-vault, get-passwords, export-passwords, unlock-with-touch-id) *)
(*    on a stored vault.                                                   *)
(*  - SpecImport: import-passwords with the file its dialog returned and   *)
(*    the entries parsed from it recorded, next to delete-password.        *)
(*  - SpecSnapshot: one get-passwords session with the handlers that write *)
(*    the collection called between the steps of its loop.                 *)
(*  - SpecRendererLive: the renderer's handleUnlock, handleTouchIdUnlock   *)
(*    and handleLock with the fairness of the event loop.                  *)
(***************************************************************************)
EXTENDS Integers, Sequences, FiniteSets, TLC

VARIABLES
    store,      \* electron-store: [vault, vaultCheck, touchIdPassword,
                \* touchIdEnabled], each <<>> or <<value>>
    keyCache,   \* the Map keyCache, in insertion order: seq of [k, v]
    now,        \* Date.now(), in milliseconds
    sessions,   \* the background loops started by get-passwords
    sent,       \* what event.sender.send has sent, in order
    lastOp,     \* the last IPC call and its result (history)
    initPw,     \* the password of the most recent create-vault (history)
    awaiting,   \* the IPC calls suspended at an await (a dialog, a prompt)
    renderer,   \* the state of the App component and its IPC listeners
    probe       \* the last direct call of encrypt, decrypt or deriveKey, its
                \* arguments and its result, the deriveKeyAsync calls in
                \* flight, and the file and entries of the last import (history)

vars == <<store, keyCache, now, sessions, sent, lastOp, initPw, awaiting, renderer,
          probe>>

-----------------------------------------------------------------------------
(* Bounds of the model *)

MaxClock == 2
RandScale == 1
MaxRecords == 2
MaxImport == 2
MaxVault == 21
MaxForeign == 1
MaxAwaiting == 1
MaxUnlocks == 2
MaxText == 2
MaxInflight == 2

\* the passwords, the payloads and the random bytes the handlers are called with
Passwords == {"pw1", "pw2"}
Sites == {"a.com"}
Salts == {"s1"}
IVs == {"iv1"}

(* Program constants *)

SyncCacheLimit == 100
AsyncCacheLimit == 5000
batchSize == 10
TAG_LENGTH == 16

-----------------------------------------------------------------------------
(* Optional values *)

None == <<>>
Some(v) == <<v>>
Has(o) == Len(o) = 1
Get(o) == o[1]

-----------------------------------------------------------------------------
(* Texts and JSON *)

VaultCheckText == <<"vault-check">>

Payloads == [site : Sites]

JSONstringify(o) == <<"{", o.site, "}">>

JSONparse(t) ==
    IF Len(t) = 3 /\ t[1] = "{" /\ t[3] = "}" THEN Some([site |-> t[2]]) ELSE None

\* A text is a sequence of tokens.  Three tokens are single UTF-16 code units:
\* the two halves of a surrogate pair and the replacement character; every
\* other token stands for a run of ASCII characters.
HiSurrogate == "\\uD83D"
LoSurrogate == "\\uDE00"
Replacement == "\\uFFFD"

\* the 'utf8' input encoding of cipher.update: a surrogate pair becomes the
\* four bytes of its code point, a surrogate without its other half becomes
\* the three bytes of U+FFFD, ASCII characters are their own bytes
RECURSIVE utf8Encode(_)
utf8Encode(text) ==
    IF text = <<>> THEN <<>>
    ELSE IF Len(text) >= 2 /\ text[1] = HiSurrogate /\ text[2] = LoSurrogate
    THEN <<"f0 9f 98 80">> \o utf8Encode(SubSeq(text, 3, Len(text)))
    ELSE IF text[1] \in {HiSurrogate, LoSurrogate, Replacement}
    THEN <<"ef bf bd">> \o utf8Encode(Tail(text))
    ELSE <<text[1]>> \o utf8Encode(Tail(text))

\* the 'utf8' output encoding of decipher.update and decipher.final, from
\* the j-th group of bytes on
RECURSIVE utf8DecodeFrom(_, _)
utf8DecodeFrom(bytes, j) ==
    IF j > Len(bytes) THEN <<>>
    ELSE (IF bytes[j] = "f0 9f 98 80" THEN <<HiSurrogate, LoSurrogate>>
          ELSE IF bytes[j] = "ef bf bd" THEN <<Replacement>>
          ELSE <<bytes[j]>>) \o utf8DecodeFrom(bytes, j + 1)

utf8Decode(bytes) == CHOOSE text \in {utf8DecodeFrom(b, 1) : b \in {bytes}} : TRUE

\* Buffer.from(h, 'hex'): decoding stops at the first pair of characters that
\* is not hexadecimal.  A name such as "s1" is the hexadecimal text of the
\* bytes of that name; "s1zz" and "iv1zz" are such texts followed by "zz".
fromHex(h) ==
    CHOOSE bytes \in {IF text = "s1zz" THEN "s1"
                      ELSE IF text = "iv1zz" THEN "iv1"
                      ELSE IF text = "zz" THEN ""
                      ELSE text : text \in {h}} : TRUE

-----------------------------------------------------------------------------
(* KeyDeriver: deriveKey with the shared cache *)

\* the key of HMAC: a password shorter than the block of SHA-512 is padded
\* with zero bytes, so NUL characters at its end make no difference.
\* "pw1\\0" is the password "pw1" followed by one NUL character.
hmacKey(password) == IF password = "pw1\\0" THEN "pw1" ELSE password

pbkdf2(password, salt) == [pw |-> hmacKey(password), salt |-> salt]

\* variant of the cache key that leaves the salt out
CacheKeyPasswordOnly(password, salt) == <<password, ":", "">>

\* password + ':' + salt.toString('hex'), as a triple: cacheKeyText below is
\* the same key as the text it is
CacheKey(password, salt) == <<password, ":", salt>>

CacheHas(cache, ck) == \E i \in 1..Len(cache) : cache[i].k = ck

CacheGet(cache, ck) == cache[CHOOSE i \in 1..Len(cache) : cache[i].k = ck].v

\* Map.set: an existing key keeps its place, a new key goes last
CacheSet(cache, ck, key) ==
    IF CacheHas(cache, ck)
    THEN [i \in 1..Len(cache) |->
            IF cache[i].k = ck THEN [k |-> ck, v |-> key] ELSE cache[i]]
    ELSE Append(cache, [k |-> ck, v |-> key])

\* variant of the eviction that removes the entry inserted last
CacheEvictNewest(cache, limit) ==
    IF Len(cache) > limit THEN SubSeq(cache, 1, Len(cache) - 1) ELSE cache

\* variant of the eviction that removes nothing
CacheEvictNever(cache, limit) == cache

\* keyCache.delete(keyCache.keys().next().value) once the size exceeds limit
CacheEvict(cache, limit) == IF Len(cache) > limit THEN Tail(cache) ELSE cache

\* deriveKey(password, salt): the key and the cache it leaves
deriveKey(cache, password, salt) ==
    LET ck == CacheKey(password, salt) IN
    IF CacheHas(cache, ck)
    THEN [key |-> CacheGet(cache, ck), cache |-> cache]
    ELSE LET key == pbkdf2(password, salt) IN
         [key |-> key,
          cache |-> CacheEvict(CacheSet(cache, ck, key), SyncCacheLimit)]

-----------------------------------------------------------------------------
(* RecordCipher: AES-256-GCM, symbolic *)

GcmEncrypt(key, iv, text) == [key |-> key, iv |-> iv, pt |-> text]

\* cipher.getAuthTag(): the tag of 16 bytes
GcmTag(key, iv, ct) == [key |-> key, iv |-> iv, ct |-> ct, len |-> TAG_LENGTH]

\* the tag lengths decipher.setAuthTag accepts for GCM when createDecipheriv
\* was given no authTagLength
GcmTagLengths == {4, 8, 12, 13, 14, 15, 16}

\* decipher.setAuthTag and decipher.final(): setAuthTag throws on a tag of
\* another length, final throws unless the tag is the first len bytes of the
\* tag that authenticates the ciphertext
GcmDecrypt(key, iv, ct, tag) ==
    IF /\ tag.len \in GcmTagLengths
       /\ [tag EXCEPT !.len = TAG_LENGTH] = GcmTag(key, iv, ct)
    THEN Some(ct.pt)
    ELSE None

\* variant of encrypt that encodes the text one UTF-16 code unit at a time, so
\* that the halves of a surrogate pair are encoded apart
encryptByCodeUnit(cache, text, masterPassword, salt, iv) ==
    LET d == deriveKey(cache, masterPassword, salt)
        bytes == [j \in 1..Len(text) |-> utf8Encode(<<text[j]>>)[1]]
        ct == GcmEncrypt(d.key, iv, bytes)
    IN  [env |-> [encrypted |-> ct, iv |-> iv, salt |-> salt,
                  tag |-> GcmTag(d.key, iv, ct)],
         cache |-> d.cache]

\* encrypt(text, masterPassword) with the random salt and iv it drew
encrypt(cache, text, masterPassword, salt, iv) ==
    LET d == deriveKey(cache, masterPassword, salt)
        ct == GcmEncrypt(d.key, iv, utf8Encode(text))
    IN  [env |-> [encrypted |-> ct, iv |-> iv, salt |-> salt,
                  tag |-> GcmTag(d.key, iv, ct)],
         cache |-> d.cache]

\* decrypt(encryptedData, masterPassword): res is <<>> when it throws.
\* Destructuring undefined throws before deriveKey is called.
decrypt(cache, encryptedData, masterPassword) ==
    IF ~Has(encryptedData) THEN [res |-> None, cache |-> cache]
    ELSE LET e == Get(encryptedData)
             d == deriveKey(cache, masterPassword, fromHex(e.salt))
             bytes == GcmDecrypt(d.key, fromHex(e.iv), e.encrypted, e.tag)
         IN  [res |-> IF Has(bytes) THEN Some(utf8Decode(Get(bytes))) ELSE None,
              cache |-> d.cache]

\* deriveKeyAsync(password, salt) when no other callback runs between the
\* call and its own pbkdf2 callback: the key it resolves to and the cache
deriveKeyAsync(cache, password, salt) ==
    LET ck == CacheKey(password, salt) IN
    IF CacheHas(cache, ck)
    THEN [key |-> CacheGet(cache, ck), cache |-> cache]
    ELSE LET key == pbkdf2(password, salt) IN
         [key |-> key,
          cache |-> CacheEvict(CacheSet(cache, ck, key), AsyncCacheLimit)]

\* decryptAsync(encryptedData, masterPassword): res is <<>> when it rejects
decryptAsync(cache, encryptedData, masterPassword) ==
    IF ~Has(encryptedData) THEN [res |-> None, cache |-> cache]
    ELSE LET e == Get(encryptedData)
             d == deriveKeyAsync(cache, masterPassword, fromHex(e.salt))
             bytes == GcmDecrypt(d.key, fromHex(e.iv), e.encrypted, e.tag)
         IN  [res |-> IF Has(bytes) THEN Some(utf8Decode(Get(bytes))) ELSE None,
              cache |-> d.cache]

-----------------------------------------------------------------------------
(* The store *)

\* store.get('vault') || []
VaultOrEmpty == IF Has(store.vault) THEN Get(store.vault) ELSE <<>>

Ids(vault) == {vault[i].id : i \in 1..Len(vault)}

\* the store of a fresh install
EmptyStore ==
    [vault |-> None, vaultCheck |-> None,
     touchIdPassword |-> None, touchIdEnabled |-> None]

\* the record of an IPC call: its channel, its password argument (of the calls
\* that verify or decrypt with it) or the password it returned, its id argument
\* or the id it made, whether the id was in the collection when it was called,
\* its result (ok, and total or count), the error it returned, whether it ended
\* in an exception that no catch took, and the parity of the number of calls
\* handled so far
Op(name, pw, id, found, ok, total) ==
    [op |-> name, pw |-> pw, id |-> id, found |-> found, ok |-> ok,
     total |-> total, error |-> "-", raised |-> FALSE, n |-> 1 - lastOp.n]

\* a call that returned { success: false, error }
Fail(name, error) == [Op(name, "-", 0, FALSE, FALSE, 0) EXCEPT !.error = error]

\* a call whose handler threw: ipcMain rejects the renderer's invoke
Raise(name) == [Op(name, "-", 0, FALSE, FALSE, 0) EXCEPT !.raised = TRUE]

NoOp == [op |-> "none", pw |-> "-", id |-> 0, found |-> FALSE, ok |-> TRUE,
         total |-> 0, error |-> "-", raised |-> FALSE, n |-> 0]

\* The renderer once checkVault has found a vault: the unlock screen, nothing
\* typed, nothing listed.  pc is where handleUnlock stands, replies holds the
\* reply of the invoke it awaits (with the number of events sent before it),
\* delivered counts the events of sent that ipcRenderer has dispatched,
\* listeners are the registered listeners in order, each with the number of
\* the handleUnlock call that made it, and pendingItems[c] is the array
\* pendingItems of the c-th such call.
NoRenderer ==
    [screen |-> "unlock", masterPassword |-> "", items |-> <<>>, loading |-> FALSE,
     pc |-> "idle", replies |-> <<>>, delivered |-> 0,
     listeners |-> <<>>, pendingItems |-> <<>>]

\* no direct call yet.  fn is the function called last, with its password,
\* salt and plaintext; env is the envelope encrypt returned last, sealedPw the
\* password it was made with; edit says how the envelope was altered before
\* it was given to decrypt, res is what decrypt returned (<<>> when it threw),
\* key what deriveKey or deriveKeyAsync resolved to, and inflight are the
\* deriveKeyAsync calls whose pbkdf2 callback has not run.
NoProbe ==
    [fn |-> "-", pw |-> "-", salt |-> "-", text |-> <<>>, sealedPw |-> "-",
     env |-> None, edit |-> "-", res |-> None, key |-> None, inflight |-> <<>>]

\* a step of the main process that suspends or resumes no call and that the
\* renderer takes no part in
MainOnly == UNCHANGED <<awaiting, renderer, probe>>

-----------------------------------------------------------------------------
(* Initial state: a fresh install, nothing stored *)

Init ==
    /\ store = EmptyStore
    /\ keyCache = <<>>
    /\ now = 1
    /\ sessions = <<>>
    /\ sent = <<>>
    /\ lastOp = NoOp
    /\ initPw = "-"
    /\ awaiting = <<>>
    /\ renderer = NoRenderer
    /\ probe = NoProbe

\* time passes
Tick ==
    /\ now < MaxClock
    /\ now' = now + 1
    /\ UNCHANGED <<store, keyCache, sessions, sent, lastOp, initPw>>

-----------------------------------------------------------------------------
(* IPC handlers *)

\* variant of create-vault that keeps the check envelope of an existing vault
CreateVaultKeepsCheck(masterPassword, salt, iv) ==
    LET e == encrypt(keyCache, VaultCheckText, masterPassword, salt, iv) IN
    /\ store' = [store EXCEPT
                    !.vaultCheck = IF Has(@) THEN @ ELSE Some(e.env),
                    !.vault = Some(<<>>)]
    /\ keyCache' = e.cache
    /\ lastOp' = Op("create-vault", masterPassword, 0, FALSE, TRUE, 0)
    /\ initPw' = masterPassword
    /\ UNCHANGED <<now, sessions, sent>>

\* ipcMain.handle('create-vault')
CreateVault(masterPassword, salt, iv) ==
    LET e == encrypt(keyCache, VaultCheckText, masterPassword, salt, iv) IN
    /\ store' = [store EXCEPT !.vaultCheck = Some(e.env), !.vault = Some(<<>>)]
    /\ keyCache' = e.cache
    /\ lastOp' = Op("create-vault", masterPassword, 0, FALSE, TRUE, 0)
    /\ initPw' = masterPassword
    /\ UNCHANGED <<now, sessions, sent>>

\* the value 'unlock-vault' returns, and the cache it leaves
unlockVault(cache, masterPassword) ==
    LET d == decrypt(cache, store.vaultCheck, masterPassword) IN
    [ok |-> Has(d.res) /\ Get(d.res) = VaultCheckText, cache |-> d.cache]

\* variant of unlock-vault without the try/catch: a decrypt that throws leaves
\* the handler as an exception
UnlockVaultUncaught(masterPassword) ==
    LET d == decrypt(keyCache, store.vaultCheck, masterPassword) IN
    /\ keyCache' = d.cache
    /\ lastOp' = IF Has(d.res)
                 THEN Op("unlock-vault", masterPassword, 0, FALSE,
                         Get(d.res) = VaultCheckText, 0)
                 ELSE Raise("unlock-vault")
    /\ UNCHANGED <<store, now, sessions, sent, initPw>>

\* ipcMain.handle('unlock-vault')
UnlockVault(masterPassword) ==
    LET u == unlockVault(keyCache, masterPassword) IN
    /\ keyCache' = u.cache
    /\ lastOp' = Op("unlock-vault", masterPassword, 0, FALSE, u.ok, 0)
    /\ UNCHANGED <<store, now, sessions, sent, initPw>>

\* ipcMain.handle('save-password')
SavePassword(masterPassword, password, salt, iv) ==
    LET vault == VaultOrEmpty
        id == now * RandScale
        e == encrypt(keyCache, JSONstringify(password), masterPassword, salt, iv)
        entry == [id |-> id, data |-> e.env]
    IN
    /\ Len(vault) < MaxRecords
    /\ store' = [store EXCEPT !.vault = Some(Append(vault, entry))]
    /\ keyCache' = e.cache
    /\ lastOp' = Op("save-password", "-", id, id \in Ids(vault), TRUE, 0)
    /\ UNCHANGED <<now, sessions, sent, initPw>>

\* variant of delete-password that removes the first record of the id only
DeletePasswordFirstOnly(id) ==
    LET vault == VaultOrEmpty
        k == CHOOSE i \in 1..Len(vault) :
                vault[i].id = id /\ \A j \in 1..(i - 1) : vault[j].id # id
        filtered == IF id \in Ids(vault)
                    THEN SubSeq(vault, 1, k - 1) \o SubSeq(vault, k + 1, Len(vault))
                    ELSE vault
    IN
    /\ store' = [store EXCEPT !.vault = Some(filtered)]
    /\ lastOp' = Op("delete-password", "-", id, id \in Ids(vault), TRUE, 0)
    /\ UNCHANGED <<keyCache, now, sessions, sent, initPw>>

\* ipcMain.handle('delete-password')
DeletePassword(id) ==
    LET vault == VaultOrEmpty
        Keep(item) == item.id # id
        filtered == SelectSeq(vault, Keep)
    IN
    /\ store' = [store EXCEPT !.vault = Some(filtered)]
    /\ lastOp' = Op("delete-password", "-", id, id \in Ids(vault), TRUE, 0)
    /\ UNCHANGED <<keyCache, now, sessions, sent, initPw>>

\* vault.findIndex(item => item.id === id), 0 for -1
FindIndex(vault, id) ==
    IF id \in Ids(vault)
    THEN CHOOSE i \in 1..Len(vault) :
            vault[i].id = id /\ \A j \in 1..(i - 1) : vault[j].id # id
    ELSE 0

\* variant of update-password that stores the record when the id is unknown
UpdatePasswordUpsert(masterPassword, id, password, salt, iv) ==
    LET vault == VaultOrEmpty
        index == FindIndex(vault, id)
        e == encrypt(keyCache, JSONstringify(password), masterPassword, salt, iv)
        entry == [id |-> id, data |-> e.env]
    IN
    /\ Len(vault) < MaxRecords \/ index # 0
    /\ store' = [store EXCEPT !.vault =
                    Some(IF index = 0 THEN Append(vault, entry)
                         ELSE [vault EXCEPT ![index] = entry])]
    /\ keyCache' = e.cache
    /\ lastOp' = Op("update-password", "-", id, index # 0, index # 0, 0)
    /\ UNCHANGED <<now, sessions, sent, initPw>>

\* variant of update-password that removes the matching record and appends
\* its replacement at the end of the collection
UpdatePasswordMovesLast(masterPassword, id, password, salt, iv) ==
    LET vault == VaultOrEmpty
        index == FindIndex(vault, id)
        e == encrypt(keyCache, JSONstringify(password), masterPassword, salt, iv)
        rest == [j \in 1..(Len(vault) - 1) |->
                    IF j < index THEN vault[j] ELSE vault[j + 1]]
    IN
    /\ IF index = 0
       THEN /\ lastOp' = Op("update-password", "-", id, FALSE, FALSE, 0)
            /\ UNCHANGED <<store, keyCache>>
       ELSE /\ store' = [store EXCEPT !.vault =
                            Some(Append(rest, [id |-> id, data |-> e.env]))]
            /\ keyCache' = e.cache
            /\ lastOp' = Op("update-password", "-", id, TRUE, TRUE, 0)
    /\ UNCHANGED <<now, sessions, sent, initPw>>

\* ipcMain.handle('update-password')
UpdatePassword(masterPassword, id, password, salt, iv) ==
    LET vault == VaultOrEmpty
        index == FindIndex(vault, id)
        e == encrypt(keyCache, JSONstringify(password), masterPassword, salt, iv)
    IN
    /\ IF index = 0
       THEN /\ lastOp' = Op("update-password", "-", id, FALSE, FALSE, 0)
            /\ UNCHANGED <<store, keyCache>>
       ELSE /\ store' = [store EXCEPT !.vault =
                            Some([vault EXCEPT ![index] = [id |-> id, data |-> e.env]])]
            /\ keyCache' = e.cache
            /\ lastOp' = Op("update-password", "-", id, TRUE, TRUE, 0)
    /\ UNCHANGED <<now, sessions, sent, initPw>>

\* variant of clear-vault that wipes without verifying the password
ClearVaultUnverified(masterPassword) ==
    /\ store' = [store EXCEPT !.vault = Some(<<>>)]
    /\ lastOp' = Op("clear-vault", masterPassword, 0, FALSE, TRUE, 0)
    /\ UNCHANGED <<keyCache, now, sessions, sent, initPw>>

\* ipcMain.handle('clear-vault')
ClearVault(masterPassword) ==
    LET d == decrypt(keyCache, store.vaultCheck, masterPassword) IN
    /\ keyCache' = d.cache
    /\ IF Has(d.res) /\ Get(d.res) = VaultCheckText
       THEN /\ store' = [store EXCEPT !.vault = Some(<<>>)]
            /\ lastOp' = Op("clear-vault", masterPassword, 0, FALSE, TRUE, 0)
       ELSE /\ lastOp' = Op("clear-vault", masterPassword, 0, FALSE, FALSE, 0)
            /\ UNCHANGED store
    /\ UNCHANGED <<now, sessions, sent, initPw>>

\* Date.now() at each entry of an import: the clock never runs backwards
Clocks(n) ==
    {ts \in [1..n -> now..MaxClock] :
        /\ n > 0 => ts[1] = now
        /\ \A j \in 1..(n - 1) : ts[j] <= ts[j + 1]}

\* variant of the loop of import-passwords that puts each entry before the
\* entries pushed so far
RECURSIVE ImportEntriesNewestFirst(_, _, _, _, _, _, _, _)
ImportEntriesNewestFirst(cache, masterPassword, passwords, ts, rs, ss, ivs, j) ==
    IF j > Len(passwords) THEN [entries |-> <<>>, cache |-> cache]
    ELSE LET e == encrypt(cache, JSONstringify(passwords[j]), masterPassword,
                          ss[j], ivs[j])
             rest == ImportEntriesNewestFirst(e.cache, masterPassword, passwords,
                                              ts, rs, ss, ivs, j + 1)
         IN  [entries |-> rest.entries
                            \o <<[id |-> ts[j] * RandScale + rs[j], data |-> e.env]>>,
              cache |-> rest.cache]

\* the loop of import-passwords from entry j on: the entries pushed and the
\* cache left.  ts, rs, ss and ivs are Date.now(), Math.random() (scaled by
\* RandScale), the salt and the iv drawn at each entry.
RECURSIVE ImportEntries(_, _, _, _, _, _, _, _)
ImportEntries(cache, masterPassword, passwords, ts, rs, ss, ivs, j) ==
    IF j > Len(passwords) THEN [entries |-> <<>>, cache |-> cache]
    ELSE LET e == encrypt(cache, JSONstringify(passwords[j]), masterPassword,
                          ss[j], ivs[j])
             rest == ImportEntries(e.cache, masterPassword, passwords,
                                   ts, rs, ss, ivs, j + 1)
         IN  [entries |-> <<[id |-> ts[j] * RandScale + rs[j], data |-> e.env]>>
                            \o rest.entries,
              cache |-> rest.cache]

\* ipcMain.handle('import-passwords'), from the moment the dialog resolves.
\* dialog is "canceled", "unreadable" (readFileSync throws) or "file";
\* passwords is what parseCSV returns.
ImportPasswords(masterPassword, dialog, passwords, ts, rs, ss, ivs) ==
    LET vault == VaultOrEmpty
        n == Len(passwords)
        r == ImportEntries(keyCache, masterPassword, passwords, ts, rs, ss, ivs, 1)
    IN
    /\ Len(vault) + n <= MaxRecords
    /\ IF dialog # "file" \/ n = 0
       THEN /\ lastOp' = Op("import-passwords", "-", 0, FALSE, FALSE, 0)
            /\ UNCHANGED <<store, keyCache, now>>
       ELSE /\ store' = [store EXCEPT !.vault = Some(vault \o r.entries)]
            /\ keyCache' = r.cache
            /\ now' = ts[n]
            /\ lastOp' = Op("import-passwords", "-", 0, FALSE, TRUE, n)
    /\ UNCHANGED <<sessions, sent, initPw>>

-----------------------------------------------------------------------------
(* BatchDecryptPipeline: get-passwords and its background loop *)

\* variant of the slice that is one record short
SliceDropsLast(vault, i) ==
    SubSeq(vault, i + 1,
           IF i + batchSize - 1 < Len(vault) THEN i + batchSize - 1 ELSE Len(vault))

\* variant of the slice that is one record long
SliceOverlapping(vault, i) ==
    SubSeq(vault, i + 1,
           IF i + batchSize + 1 < Len(vault) THEN i + batchSize + 1 ELSE Len(vault))

\* variant of the slice that is taken from the collection stored now
SliceOfStore(vault, i) ==
    SubSeq(VaultOrEmpty, i + 1,
           IF i + batchSize < Len(VaultOrEmpty) THEN i + batchSize
           ELSE Len(VaultOrEmpty))

\* encryptedVault.slice(i, i + batchSize), i counted from 0
Slice(vault, i) ==
    SubSeq(vault, i + 1, IF i + batchSize < Len(vault) THEN i + batchSize ELSE Len(vault))

\* deriveKeyAsync at the moment it is called, for every item of the batch:
\* hit[ck] is the cached key when the cache has ck, and left[ck] counts the
\* pbkdf2 callbacks still to come for ck
StartBatch(cache, batch, masterPassword) ==
    LET cks == {CacheKey(masterPassword, fromHex(batch[j].data.salt)) :
                    j \in 1..Len(batch)}
        calls(ck) ==
            Cardinality({j \in 1..Len(batch) :
                            CacheKey(masterPassword, fromHex(batch[j].data.salt)) = ck})
    IN  [hit |-> [ck \in cks |->
                    IF CacheHas(cache, ck) THEN Some(CacheGet(cache, ck)) ELSE None],
         left |-> [ck \in cks |-> IF CacheHas(cache, ck) THEN 0 ELSE calls(ck)]]

\* decryptAsync(item.data, masterPassword) with the key deriveKeyAsync resolved to,
\* then JSON.parse: the item sent, or <<>> for null.  The payloads carry no id
\* field of their own, so the spread leaves id: item.id in place.
DecryptItem(s, item) ==
    LET ck == CacheKey(s.pw, fromHex(item.data.salt))
        key == IF Has(s.hit[ck]) THEN Get(s.hit[ck])
               ELSE pbkdf2(s.pw, fromHex(item.data.salt))
        Parse(bytes) ==
            IF Has(bytes) THEN JSONparse(utf8Decode(Get(bytes))) ELSE None
        \* what decipher.final() gave is computed once and then parsed
        parsed == CHOOSE r \in {Parse(bytes) : bytes \in
                      {GcmDecrypt(key, fromHex(item.data.iv), item.data.encrypted,
                                  item.data.tag)}} : TRUE
    IN  IF Has(parsed) THEN Some([id |-> item.id, site |-> Get(parsed).site]) ELSE None

\* variant of the batch in which one failed record rejects the whole batch
ValidResultsAllOrNothing(s, batch) ==
    LET results == [j \in 1..Len(batch) |-> DecryptItem(s, batch[j])] IN
    IF \A j \in 1..Len(batch) : Has(results[j])
    THEN [j \in 1..Len(batch) |-> Get(results[j])]
    ELSE <<>>

\* batchResults.filter(Boolean)
ValidResults(s, batch) ==
    LET results == [j \in 1..Len(batch) |-> DecryptItem(s, batch[j])]
        valid == SelectSeq(results, Has)
    IN  [j \in 1..Len(valid) |-> Get(valid[j])]

Event(channel, sid, items) == [ch |-> channel, sid |-> sid, items |-> items]

\* variant of get-passwords that signals completion for an empty vault
GetPasswordsSignalsEmpty(masterPassword) ==
    LET encryptedVault == store.vault IN
    /\ IF ~Has(encryptedVault) \/ Len(Get(encryptedVault)) = 0
       THEN /\ lastOp' = Op("get-passwords", masterPassword, 0, FALSE, TRUE, 0)
            /\ sent' = Append(sent, Event("passwords-complete", 0, <<>>))
            /\ UNCHANGED sessions
       ELSE LET vault == Get(encryptedVault)
                b == StartBatch(keyCache, Slice(vault, 0), masterPassword)
            IN  /\ sessions' = Append(sessions,
                       [pw |-> masterPassword, vault |-> vault, i |-> 0,
                        phase |-> "deriving", hit |-> b.hit, left |-> b.left])
                /\ lastOp' = Op("get-passwords", masterPassword, 0, FALSE, TRUE, Len(vault))
                /\ UNCHANGED sent
    /\ UNCHANGED <<store, keyCache, now, initPw>>

\* variant of get-passwords whose total counts only the records that decrypt
\* under the password of the call
GetPasswordsCountsReadable(masterPassword) ==
    LET encryptedVault == store.vault IN
    /\ IF ~Has(encryptedVault) \/ Len(Get(encryptedVault)) = 0
       THEN /\ lastOp' = Op("get-passwords", masterPassword, 0, FALSE, TRUE, 0)
            /\ UNCHANGED sessions
       ELSE LET vault == Get(encryptedVault)
                b == StartBatch(keyCache, Slice(vault, 0), masterPassword)
                readable == SelectSeq(vault, LAMBDA item :
                    Has(decrypt(<<>>, Some(item.data), masterPassword).res))
            IN  /\ sessions' = Append(sessions,
                       [pw |-> masterPassword, vault |-> vault, i |-> 0,
                        phase |-> "deriving", hit |-> b.hit, left |-> b.left])
                /\ lastOp' = Op("get-passwords", masterPassword, 0, FALSE, TRUE,
                                Len(readable))
    /\ UNCHANGED <<store, keyCache, now, sent, initPw>>

\* ipcMain.handle('get-passwords'): the reply, and the loop up to its first await
GetPasswords(masterPassword) ==
    LET encryptedVault == store.vault IN
    /\ IF ~Has(encryptedVault) \/ Len(Get(encryptedVault)) = 0
       THEN /\ lastOp' = Op("get-passwords", masterPassword, 0, FALSE, TRUE, 0)
            /\ UNCHANGED sessions
       ELSE LET vault == Get(encryptedVault)
                b == StartBatch(keyCache, Slice(vault, 0), masterPassword)
            IN  /\ sessions' = Append(sessions,
                       [pw |-> masterPassword, vault |-> vault, i |-> 0,
                        phase |-> "deriving", hit |-> b.hit, left |-> b.left])
                /\ lastOp' = Op("get-passwords", masterPassword, 0, FALSE, TRUE, Len(vault))
    /\ UNCHANGED <<store, keyCache, now, sent, initPw>>

\* the pbkdf2 callback of deriveKeyAsync
DeriveCallback(sid, ck) ==
    LET s == sessions[sid] IN
    /\ s.phase = "deriving"
    /\ ck \in DOMAIN s.left
    /\ s.left[ck] > 0
    /\ keyCache' = CacheEvict(CacheSet(keyCache, ck, pbkdf2(ck[1], ck[3])),
                              AsyncCacheLimit)
    /\ sessions' = [sessions EXCEPT ![sid].left[ck] = @ - 1]
    /\ UNCHANGED <<store, now, sent, lastOp, initPw>>

\* variant of the batch step in which a record that fails to decrypt rejects
\* Promise.all: the loop ends there, with no timer and no completion signal
EmitBatchRejects(sid) ==
    LET s == sessions[sid]
        batch == Slice(s.vault, s.i)
        validResults == ValidResults(s, batch)
    IN
    /\ s.phase = "deriving"
    /\ \A ck \in DOMAIN s.left : s.left[ck] = 0
    /\ IF Len(validResults) = Len(batch)
       THEN /\ sent' = Append(sent, Event("passwords-batch", sid, validResults))
            /\ sessions' = [sessions EXCEPT ![sid].phase = "yield"]
       ELSE /\ sessions' = [sessions EXCEPT ![sid].phase = "rejected"]
            /\ UNCHANGED sent
    /\ UNCHANGED <<store, keyCache, now, lastOp, initPw>>

\* variant of the batch step that sends the batch whatever it holds
EmitBatchSendsEmpty(sid) ==
    LET s == sessions[sid]
        validResults == ValidResults(s, Slice(s.vault, s.i))
    IN
    /\ s.phase = "deriving"
    /\ \A ck \in DOMAIN s.left : s.left[ck] = 0
    /\ sent' = Append(sent, Event("passwords-batch", sid, validResults))
    /\ sessions' = [sessions EXCEPT ![sid].phase = "yield"]
    /\ UNCHANGED <<store, keyCache, now, lastOp, initPw>>

\* Promise.all resolves: filter, send the batch unless empty, start the timer
EmitBatch(sid) ==
    LET s == sessions[sid]
        validResults == ValidResults(s, Slice(s.vault, s.i))
    IN
    /\ s.phase = "deriving"
    /\ \A ck \in DOMAIN s.left : s.left[ck] = 0
    /\ sent' = IF Len(validResults) > 0
               THEN Append(sent, Event("passwords-batch", sid, validResults))
               ELSE sent
    /\ sessions' = [sessions EXCEPT ![sid].phase = "yield"]
    /\ UNCHANGED <<store, keyCache, now, lastOp, initPw>>

\* variant of the timer step that signals completion after every batch
TimerFireSignalsEach(sid) ==
    LET s == sessions[sid]
        i == s.i + batchSize
    IN
    /\ s.phase = "yield"
    /\ IF i < Len(s.vault)
       THEN LET b == StartBatch(keyCache, Slice(s.vault, i), s.pw) IN
            sessions' = [sessions EXCEPT ![sid] =
                   [@ EXCEPT !.i = i, !.phase = "deriving",
                             !.hit = b.hit, !.left = b.left]]
       ELSE sessions' = [sessions EXCEPT ![sid] =
                   [@ EXCEPT !.i = i, !.phase = "done"]]
    /\ sent' = Append(sent, Event("passwords-complete", sid, <<>>))
    /\ UNCHANGED <<store, keyCache, now, lastOp, initPw>>

\* the 1 ms timer fires: the next batch starts, or completion is signalled
TimerFire(sid) ==
    LET s == sessions[sid]
        i == s.i + batchSize
    IN
    /\ s.phase = "yield"
    /\ IF i < Len(s.vault)
       THEN LET b == StartBatch(keyCache, Slice(s.vault, i), s.pw) IN
            /\ sessions' = [sessions EXCEPT ![sid] =
                   [@ EXCEPT !.i = i, !.phase = "deriving",
                             !.hit = b.hit, !.left = b.left]]
            /\ UNCHANGED sent
       ELSE /\ sessions' = [sessions EXCEPT ![sid] =
                   [@ EXCEPT !.i = i, !.phase = "done"]]
            /\ sent' = Append(sent, Event("passwords-complete", sid, <<>>))
    /\ UNCHANGED <<store, keyCache, now, lastOp, initPw>>

-----------------------------------------------------------------------------
(* The vault handlers, from a fresh install *)

\* the ids a caller passes: those of the stored records, and one that is unknown
\* (Date.now() is never 0)
IdInputs == Ids(VaultOrEmpty) \cup {0}

ImportInputs == UNION {[1..n -> Payloads] : n \in 0..MaxImport}

\* import-passwords is taken here from the moment its dialog resolves: the
\* call does nothing before the dialog but open it
Next ==
    \/ Tick /\ MainOnly
    \/ \E pw \in Passwords, salt \in Salts, iv \in IVs :
          CreateVault(pw, salt, iv) /\ MainOnly
    \/ \E pw \in Passwords : UnlockVault(pw) /\ MainOnly
    \/ \E pw \in Passwords, p \in Payloads, salt \in Salts, iv \in IVs :
          SavePassword(pw, p, salt, iv) /\ MainOnly
    \/ \E id \in IdInputs : DeletePassword(id) /\ MainOnly
    \/ \E pw \in Passwords, id \in IdInputs, p \in Payloads, salt \in Salts, iv \in IVs :
          UpdatePassword(pw, id, p, salt, iv) /\ MainOnly
    \/ \E pw \in Passwords : ClearVault(pw) /\ MainOnly
    \/ \E pw \in Passwords, dialog \in {"canceled", "unreadable", "file"} :
       \E passwords \in (IF dialog = "file" THEN ImportInputs ELSE {<<>>}) :
          \E ts \in Clocks(Len(passwords)),
             rs \in [1..Len(passwords) -> 0..(RandScale - 1)],
             ss \in [1..Len(passwords) -> Salts],
             ivs \in [1..Len(passwords) -> IVs] :
             ImportPasswords(pw, dialog, passwords, ts, rs, ss, ivs) /\ MainOnly

Spec == Init /\ [][Next]_vars

-----------------------------------------------------------------------------
(* One decrypt session over a stored vault, after a restart of the process *)

OtherPassword(pw) == CHOOSE q \in Passwords : q # pw

\* a vault of n records saved under owner at the clock instants 1..n, those at
\* the positions in foreign saved under the other password
StoredVault(n, owner, foreign) ==
    [j \in 1..n |->
        [id |-> j * RandScale,
         data |-> encrypt(<<>>, JSONstringify([site |-> IF j % 2 = 0 THEN "a.com" ELSE "b.com"]),
                          IF j \in foreign THEN OtherPassword(owner) ELSE owner,
                          "s1", "iv1").env]]

InitPipeline ==
    /\ \/ store = EmptyStore
       \/ \E n \in 0..MaxVault, owner \in {"pw1"} :
          \E foreign \in {f \in SUBSET (1..n) : Cardinality(f) <= MaxForeign} :
             store = [EmptyStore EXCEPT
                         !.vault = Some(StoredVault(n, owner, foreign)),
                         !.vaultCheck = Some(encrypt(<<>>, VaultCheckText, owner,
                                                     "s1", "iv1").env)]
    /\ keyCache = <<>>
    /\ now = 1
    /\ sessions = <<>>
    /\ sent = <<>>
    /\ lastOp = NoOp
    /\ initPw = "-"
    /\ awaiting = <<>>
    /\ renderer = NoRenderer
    /\ probe = NoProbe

NextPipeline ==
    \/ sessions = <<>> /\ \E pw \in Passwords : GetPasswords(pw) /\ MainOnly
    \/ \E sid \in 1..Len(sessions) :
          \E ck \in DOMAIN sessions[sid].left : DeriveCallback(sid, ck) /\ MainOnly
    \/ \E sid \in 1..Len(sessions) : EmitBatch(sid) /\ MainOnly
    \/ \E sid \in 1..Len(sessions) : TimerFire(sid) /\ MainOnly

SpecPipeline == InitPipeline /\ [][NextPipeline]_vars

\* The event loop runs every callback that is due: a pbkdf2 callback of the
\* thread pool, the continuation of a resolved Promise.all, a timer of 1 ms.
LoopStep ==
    \/ \E sid \in 1..Len(sessions) :
          \E ck \in DOMAIN sessions[sid].left : DeriveCallback(sid, ck) /\ MainOnly
    \/ \E sid \in 1..Len(sessions) : EmitBatch(sid) /\ MainOnly
    \/ \E sid \in 1..Len(sessions) : TimerFire(sid) /\ MainOnly

\* the stored vaults of InitPipeline whose records under the other password
\* come first: where the records that fail are makes no difference to the loop
InitPipelineLive ==
    /\ \E n \in 0..MaxVault, k \in 0..MaxForeign :
          /\ k <= n
          /\ store = [EmptyStore EXCEPT
                         !.vault = Some(StoredVault(n, "pw1", 1..k)),
                         !.vaultCheck = Some(encrypt(<<>>, VaultCheckText, "pw1",
                                                     "s1", "iv1").env)]
    /\ keyCache = <<>>
    /\ now = 1
    /\ sessions = <<>>
    /\ sent = <<>>
    /\ lastOp = NoOp
    /\ initPw = "-"
    /\ awaiting = <<>>
    /\ renderer = NoRenderer
    /\ probe = NoProbe

SpecPipelineLive == InitPipelineLive /\ [][NextPipeline]_vars /\ WF_vars(LoopStep)

-----------------------------------------------------------------------------
(* What a decrypt session is expected to deliver *)

\* the record decrypts and parses under pw
Readable(item, pw) ==
    LET d == decrypt(<<>>, Some(item.data), pw) IN
    Has(d.res) /\ Has(JSONparse(Get(d.res)))

\* the decrypted record
Plain(item, pw) ==
    [id |-> item.id,
     site |-> Get(JSONparse(Get(decrypt(<<>>, Some(item.data), pw).res))).site]

IsBatchOf(sid, e) == e.sid = sid /\ e.ch = "passwords-batch"

\* the batch events of a session, in the order sent
BatchEvents(sid) ==
    LET Mine(e) == IsBatchOf(sid, e) IN SelectSeq(sent, Mine)

RECURSIVE Concat(_)
Concat(ss) == IF ss = <<>> THEN <<>> ELSE Head(ss).items \o Concat(Tail(ss))

\* every item sent for a session, in the order sent
Emitted(sid) == Concat(BatchEvents(sid))

\* the positions in the collection of the k-th chunk, k counted from 0
ChunkPositions(vault, k) ==
    {j \in 1..Len(vault) : k * batchSize < j /\ j <= (k + 1) * batchSize}

\* the readable records of the k-th chunk, decrypted, in collection order
RECURSIVE PlainFrom(_, _, _, _)
PlainFrom(vault, pw, j, last) ==
    IF j > last \/ j > Len(vault) THEN <<>>
    ELSE (IF Readable(vault[j], pw) THEN <<Plain(vault[j], pw)>> ELSE <<>>)
            \o PlainFrom(vault, pw, j + 1, last)

PlainChunk(vault, pw, k) == PlainFrom(vault, pw, k * batchSize + 1, (k + 1) * batchSize)

\* the position of the record with this id
Position(vault, id) == CHOOSE j \in 1..Len(vault) : vault[j].id = id

\* the chunk an event's first item comes from
ChunkOf(vault, e) == (Position(vault, e.items[1].id) - 1) \div batchSize

\* the chunks whose batch has been settled: all before the loop index, and the
\* one at the loop index once its batch was filtered and the timer started
Settled(s, k) ==
    \/ (k + 1) * batchSize <= s.i
    \/ k * batchSize = s.i /\ s.phase = "yield"

Completions(sid) ==
    {x \in 1..Len(sent) : sent[x].sid = sid /\ sent[x].ch = "passwords-complete"}

AllReadable(s) == \A j \in 1..Len(s.vault) : Readable(s.vault[j], s.pw)

-----------------------------------------------------------------------------
(* Claims about the decrypt pipeline, checked under SpecPipeline *)

\* C1. Batch completeness: in a session whose records are all readable under
\* its password, no record is emitted twice, nothing is emitted that is not a
\* record of the collection, and once the session is complete every record has
\* been emitted.
C1_BatchCompleteness ==
    \A sid \in 1..Len(sessions) :
        LET s == sessions[sid]
            em == Emitted(sid)
        IN  AllReadable(s) =>
            /\ \A x, y \in 1..Len(em) : x # y => em[x].id # em[y].id
            /\ \A x \in 1..Len(em) :
                  \E j \in 1..Len(s.vault) : em[x] = Plain(s.vault[j], s.pw)
            /\ s.phase = "done" =>
                  /\ Len(em) = Len(s.vault)
                  /\ \A j \in 1..Len(s.vault) :
                        \E x \in 1..Len(em) : em[x] = Plain(s.vault[j], s.pw)

C1_Witness ==
    \E sid \in 1..Len(sessions) :
        /\ sessions[sid].phase = "done"
        /\ AllReadable(sessions[sid])
        /\ Len(sessions[sid].vault) > 2 * batchSize
        /\ Len(Emitted(sid)) = Len(sessions[sid].vault)

\* C2. Batch ordering: every batch sent holds between 1 and 10 records, all
\* of one chunk of 10 consecutive positions, and holds exactly the readable
\* records of that chunk; the batches of a session are sent in increasing
\* chunk order; and when the loop has reached chunk k, the batch of every
\* earlier chunk with a readable record has been sent and no batch of chunk k
\* or later has been sent while chunk k is still being decrypted.
C2_BatchOrdering ==
    \A sid \in 1..Len(sessions) :
        LET s == sessions[sid]
            ev == BatchEvents(sid)
        IN  /\ \A x \in 1..Len(ev) :
                  LET k == ChunkOf(s.vault, ev[x]) IN
                  /\ Len(ev[x].items) >= 1
                  /\ Len(ev[x].items) <= batchSize
                  /\ \A y \in 1..Len(ev[x].items) :
                        Position(s.vault, ev[x].items[y].id) \in ChunkPositions(s.vault, k)
                  /\ ev[x].items = PlainChunk(s.vault, s.pw, k)
                  /\ Settled(s, k)
                  /\ x < Len(ev) => k < ChunkOf(s.vault, ev[x + 1])
            /\ \A k \in 0..(Len(s.vault) \div batchSize) :
                  (Settled(s, k) /\ PlainChunk(s.vault, s.pw, k) # <<>>) =>
                      \E x \in 1..Len(ev) : ChunkOf(s.vault, ev[x]) = k

C2_Witness ==
    \E sid \in 1..Len(sessions) :
        /\ sessions[sid].phase = "deriving"
        /\ sessions[sid].i = 2 * batchSize
        /\ Len(BatchEvents(sid)) = 2
        /\ Len(BatchEvents(sid)[1].items) = batchSize

EmptyOrAbsent(vault) == ~Has(vault) \/ Len(Get(vault)) = 0

IsCall(name) == lastOp' # lastOp /\ lastOp'.op = name

\* C4, as claimed: get-passwords on an empty or absent collection returns
\* total = 0, emits no batch and emits a completion signal.
C4_AsClaimed ==
    [][(IsCall("get-passwords") /\ EmptyOrAbsent(store.vault)) =>
          /\ lastOp'.total = 0
          /\ Len(sent') = Len(sent) + 1
          /\ sent'[Len(sent')].ch = "passwords-complete"]_vars

\* C4, amended: get-passwords on an empty or absent collection returns
\* total = 0, starts no background loop and sends nothing at all: neither a
\* batch nor a completion signal.
C4_EmptyVaultSendsNothing ==
    [][(IsCall("get-passwords") /\ EmptyOrAbsent(store.vault)) =>
          /\ lastOp'.total = 0
          /\ sent' = sent
          /\ sessions' = sessions]_vars

C4_Witness ==
    /\ lastOp.op = "get-passwords"
    /\ lastOp.total = 0
    /\ EmptyOrAbsent(store.vault)
    /\ sent = <<>>

\* C5. Per-record failure absorption: whatever records fail to decrypt, each
\* settled chunk has delivered exactly its readable records, a session whose
\* loop has ended has delivered every readable record of the collection and
\* the completion signal, and a session whose loop has not ended can always
\* take its next step.
C5_FailureAbsorbed ==
    \A sid \in 1..Len(sessions) :
        LET s == sessions[sid]
            em == Emitted(sid)
        IN  /\ \A j \in 1..Len(s.vault) :
                  (Readable(s.vault[j], s.pw) /\ Settled(s, (j - 1) \div batchSize)) =>
                      \E x \in 1..Len(em) : em[x] = Plain(s.vault[j], s.pw)
            /\ \A x \in 1..Len(em) :
                  \E j \in 1..Len(s.vault) :
                      Readable(s.vault[j], s.pw) /\ em[x] = Plain(s.vault[j], s.pw)
            /\ s.phase = "done" =>
                  /\ em = PlainFrom(s.vault, s.pw, 1, Len(s.vault))
                  /\ Completions(sid) # {}
            /\ s.phase # "done" =>
                  ENABLED (\/ EmitBatch(sid)
                           \/ TimerFire(sid)
                           \/ \E ck \in DOMAIN s.left : DeriveCallback(sid, ck))

C5_Witness ==
    \E sid \in 1..Len(sessions) :
        LET s == sessions[sid] IN
        /\ s.phase = "done"
        /\ Len(s.vault) > batchSize
        /\ \E j \in 1..batchSize : ~Readable(s.vault[j], s.pw)
        /\ Len(Emitted(sid)) = Len(s.vault) - 1
        /\ Completions(sid) # {}

-----------------------------------------------------------------------------
(* Claims about the vault handlers, checked under Spec *)

\* C6. Clear-vault safety: clear-vault with a password that does not verify
\* returns failure and leaves the store as it was; with a password that
\* verifies it returns success, leaves the collection empty and leaves the
\* check envelope as it was.
C6_ClearVaultSafety ==
    [][IsCall("clear-vault") =>
          IF unlockVault(keyCache, lastOp'.pw).ok
          THEN /\ lastOp'.ok
               /\ store'.vault = Some(<<>>)
               /\ store'.vaultCheck = store.vaultCheck
          ELSE /\ ~lastOp'.ok
               /\ store' = store]_vars

C6_Witness ==
    /\ lastOp.op = "clear-vault"
    /\ ~lastOp.ok
    /\ Has(store.vaultCheck)
    /\ Len(VaultOrEmpty) > 0

C8_AsClaimed ==
    [][(IsCall("create-vault") /\ Has(store.vault)) =>
          /\ ~lastOp'.ok
          /\ store' = store]_vars

C10_AsClaimed ==
    \A x, y \in 1..Len(VaultOrEmpty) :
        x # y => VaultOrEmpty[x].id # VaultOrEmpty[y].id

\* C19, as claimed: in every reachable state in which the record collection
\* exists (check-vault-exists answers true) a check envelope exists too.
C19_AsClaimed == Has(store.vault) => Has(store.vaultCheck)

-----------------------------------------------------------------------------
(* Claims about the end of a decrypt session, checked under SpecPipelineLive *)

-----------------------------------------------------------------------------
(* Handlers that write the collection while an import waits for its dialog *)

\* a call suspended at an await: its channel, its password argument and, of
\* an import, the collection that was stored when it was made (history)
Suspended(name, masterPassword, seen) ==
    [op |-> name, pw |-> masterPassword, seen |-> seen]

\* the suspended calls without the k-th, which resumes
RemoveAt(calls, k) == SubSeq(calls, 1, k - 1) \o SubSeq(calls, k + 1, Len(calls))

\* ipcMain.handle('import-passwords') up to await dialog.showOpenDialog
ImportCall(masterPassword) ==
    /\ Len(awaiting) < MaxAwaiting
    /\ awaiting' = Append(awaiting, Suspended("import-passwords", masterPassword, VaultOrEmpty))
    /\ UNCHANGED <<store, keyCache, now, sessions, sent, lastOp, initPw, renderer, probe>>

\* variant of the import that appends to the collection it read when it was called
ImportResolveStale(k, dialog, passwords, ts, rs, ss, ivs) ==
    LET vault == awaiting[k].seen
        n == Len(passwords)
        r == ImportEntries(keyCache, awaiting[k].pw, passwords, ts, rs, ss, ivs, 1)
    IN
    /\ awaiting[k].op = "import-passwords"
    /\ Len(VaultOrEmpty) + n <= MaxRecords
    /\ IF dialog # "file" \/ n = 0
       THEN /\ lastOp' = Op("import-passwords", "-", 0, FALSE, FALSE, 0)
            /\ UNCHANGED <<store, keyCache, now>>
       ELSE /\ store' = [store EXCEPT !.vault = Some(vault \o r.entries)]
            /\ keyCache' = r.cache
            /\ now' = ts[n]
            /\ lastOp' = Op("import-passwords", "-", 0, FALSE, TRUE, n)
    /\ awaiting' = RemoveAt(awaiting, k)
    /\ UNCHANGED <<sessions, sent, initPw, renderer, probe>>

\* the dialog of the k-th suspended call resolves: the rest of import-passwords
ImportResolve(k, dialog, passwords, ts, rs, ss, ivs) ==
    /\ awaiting[k].op = "import-passwords"
    /\ ImportPasswords(awaiting[k].pw, dialog, passwords, ts, rs, ss, ivs)
    /\ awaiting' = RemoveAt(awaiting, k)
    /\ UNCHANGED <<renderer, probe>>

\* a vault created and unlocked with "pw1": the renderer passes the password
\* it unlocked with to save, update and import
InitAsync ==
    LET e == encrypt(<<>>, VaultCheckText, "pw1", "s1", "iv1") IN
    /\ store = [EmptyStore EXCEPT !.vaultCheck = Some(e.env), !.vault = Some(<<>>)]
    /\ keyCache = e.cache
    /\ now = 1
    /\ sessions = <<>>
    /\ sent = <<>>
    /\ lastOp = NoOp
    /\ initPw = "pw1"
    /\ awaiting = <<>>
    /\ renderer = NoRenderer
    /\ probe = NoProbe

NextAsync ==
    \/ Tick /\ MainOnly
    \/ \E p \in Payloads, salt \in Salts, iv \in IVs :
          SavePassword("pw1", p, salt, iv) /\ MainOnly
    \/ \E id \in IdInputs : DeletePassword(id) /\ MainOnly
    \/ \E id \in IdInputs, p \in Payloads, salt \in Salts, iv \in IVs :
          UpdatePassword("pw1", id, p, salt, iv) /\ MainOnly
    \/ \E pw \in Passwords : ClearVault(pw) /\ MainOnly
    \/ awaiting = <<>> /\ ImportCall("pw1")
    \/ \E k \in 1..Len(awaiting), dialog \in {"canceled", "unreadable", "file"} :
       \E passwords \in (IF dialog = "file" THEN ImportInputs ELSE {<<>>}) :
          \E ts \in Clocks(Len(passwords)),
             rs \in [1..Len(passwords) -> 0..(RandScale - 1)],
             ss \in [1..Len(passwords) -> Salts],
             ivs \in [1..Len(passwords) -> IVs] :
             ImportResolve(k, dialog, passwords, ts, rs, ss, ivs)

\* one import at a time: the scope of this specification
SpecAsync == InitAsync /\ [][NextAsync]_vars

-----------------------------------------------------------------------------
(* Claims about concurrent writers, checked under SpecAsync *)

\* C11. No lost updates: whatever handlers ran since a call was made, each
\* handler that writes the collection writes the collection that is stored at
\* that moment with its own change applied and nothing else: a put appends its
\* record, an import appends its count of records, an update replaces records
\* of its id only, a delete removes exactly the records of its id, a clear
\* that succeeds leaves it empty, and a call that fails leaves the store as it
\* was.
C11_NoLostUpdate ==
    [][LET old == VaultOrEmpty
           new == VaultOrEmpty'
           Other(item) == item.id # lastOp'.id
       IN
       /\ IsCall("save-password") =>
             /\ new = Append(old, new[Len(new)])
             /\ new[Len(new)].id = lastOp'.id
       /\ (IsCall("import-passwords") /\ lastOp'.ok) =>
             /\ Len(new) = Len(old) + lastOp'.total
             /\ SubSeq(new, 1, Len(old)) = old
       /\ (IsCall("update-password") /\ lastOp'.ok) =>
             /\ Len(new) = Len(old)
             /\ \A j \in 1..Len(old) : Other(old[j]) => new[j] = old[j]
       /\ IsCall("delete-password") => new = SelectSeq(old, Other)
       /\ (IsCall("clear-vault") /\ lastOp'.ok) => new = <<>>
       /\ ((IsCall("import-passwords") \/ IsCall("update-password")
                \/ IsCall("clear-vault")) /\ ~lastOp'.ok) => store' = store]_vars

\* a put has written the collection while an import waits for its dialog
C11_Witness ==
    /\ Len(awaiting) > 0
    /\ awaiting[1].op = "import-passwords"
    /\ awaiting[1].seen # VaultOrEmpty
    /\ lastOp.op = "save-password"
    /\ lastOp.ok

-----------------------------------------------------------------------------
(* Touch ID: safeStorage, Buffer and the handlers *)

\* A Buffer is its kind of bytes and the text they hold: "utf8" bytes are the
\* text itself, "safeStorage" bytes are the text sealed by the OS keychain.

\* safeStorage.encryptString(plainText)
encryptString(plainText) == [kind |-> "safeStorage", text |-> plainText]

\* safeStorage.decryptString(encrypted): <<>> when it throws
decryptString(encrypted) ==
    IF encrypted.kind = "safeStorage" THEN Some(encrypted.text) ELSE None

\* buffer.toString('base64')
toBase64(buffer) == [encoding |-> "base64", bytes |-> buffer]

\* Buffer.from(string, 'base64')
fromBase64(string) == string.bytes

\* ipcMain.handle('enable-touch-id') up to await promptTouchID; canPrompt is
\* what systemPreferences.canPromptTouchID() answers
EnableTouchIdCall(masterPassword, canPrompt) ==
    /\ IF canPrompt
       THEN /\ Len(awaiting) < MaxAwaiting
            /\ awaiting' = Append(awaiting, Suspended("enable-touch-id", masterPassword, <<>>))
            /\ UNCHANGED lastOp
       ELSE /\ lastOp' = Fail("enable-touch-id", "Touch ID not available")
            /\ UNCHANGED <<awaiting, probe>>
    /\ UNCHANGED <<store, keyCache, now, sessions, sent, initPw, renderer, probe>>

\* variant of enable-touch-id that stores the secret whatever the prompt answers
EnableTouchIdResumeIgnoresPrompt(k, prompt, available) ==
    LET masterPassword == awaiting[k].pw IN
    /\ awaiting[k].op = "enable-touch-id"
    /\ IF ~available
       THEN /\ lastOp' = Fail("enable-touch-id", "safeStorage")
            /\ UNCHANGED store
       ELSE /\ store' = [store EXCEPT
                            !.touchIdPassword =
                                Some(toBase64(encryptString(masterPassword))),
                            !.touchIdEnabled = Some(TRUE)]
            /\ lastOp' = IF prompt = "rejected"
                         THEN Fail("enable-touch-id", "prompt")
                         ELSE Op("enable-touch-id", "-", 0, FALSE, TRUE, 0)
    /\ awaiting' = RemoveAt(awaiting, k)
    /\ UNCHANGED <<keyCache, now, sessions, sent, initPw, renderer, probe>>

\* variant of enable-touch-id that stores the password encoded, not sealed
EnableTouchIdResumePlain(k, prompt, available) ==
    LET masterPassword == awaiting[k].pw IN
    /\ awaiting[k].op = "enable-touch-id"
    /\ IF prompt = "rejected"
       THEN /\ lastOp' = Fail("enable-touch-id", "prompt")
            /\ UNCHANGED store
       ELSE /\ store' = [store EXCEPT
                            !.touchIdPassword =
                                Some(toBase64([kind |-> "utf8", text |-> masterPassword])),
                            !.touchIdEnabled = Some(TRUE)]
            /\ lastOp' = Op("enable-touch-id", "-", 0, FALSE, TRUE, 0)
    /\ awaiting' = RemoveAt(awaiting, k)
    /\ UNCHANGED <<keyCache, now, sessions, sent, initPw, renderer, probe>>

\* the prompt of the k-th suspended call settles: the rest of enable-touch-id.
\* prompt is "resolved" or "rejected"; safeStorage.encryptString throws
\* unless encryption is available.
EnableTouchIdResume(k, prompt, available) ==
    LET masterPassword == awaiting[k].pw IN
    /\ awaiting[k].op = "enable-touch-id"
    /\ IF prompt = "rejected"
       THEN /\ lastOp' = Fail("enable-touch-id", "prompt")
            /\ UNCHANGED store
       ELSE IF ~available
       THEN /\ lastOp' = Fail("enable-touch-id", "safeStorage")
            /\ UNCHANGED store
       ELSE /\ store' = [store EXCEPT
                            !.touchIdPassword =
                                Some(toBase64(encryptString(masterPassword))),
                            !.touchIdEnabled = Some(TRUE)]
            /\ lastOp' = Op("enable-touch-id", "-", 0, FALSE, TRUE, 0)
    /\ awaiting' = RemoveAt(awaiting, k)
    /\ UNCHANGED <<keyCache, now, sessions, sent, initPw, renderer, probe>>

\* variant of disable-touch-id that clears the flag and keeps the secret
DisableTouchIdKeepsSecret ==
    /\ store' = [store EXCEPT !.touchIdEnabled = Some(FALSE)]
    /\ lastOp' = Op("disable-touch-id", "-", 0, FALSE, TRUE, 0)
    /\ UNCHANGED <<keyCache, now, sessions, sent, initPw, awaiting, renderer, probe>>

\* ipcMain.handle('disable-touch-id')
DisableTouchId ==
    /\ store' = [store EXCEPT !.touchIdPassword = None,
                              !.touchIdEnabled = Some(FALSE)]
    /\ lastOp' = Op("disable-touch-id", "-", 0, FALSE, TRUE, 0)
    /\ UNCHANGED <<keyCache, now, sessions, sent, initPw, awaiting, renderer, probe>>

\* ipcMain.handle('check-touch-id-enabled')
checkTouchIdEnabled == Has(store.touchIdEnabled) /\ Get(store.touchIdEnabled) = TRUE

\* variant of unlock-with-touch-id that prompts whatever the enabled flag says
UnlockWithTouchIdCallUngated ==
    /\ Len(awaiting) < MaxAwaiting
    /\ awaiting' = Append(awaiting, Suspended("unlock-with-touch-id", "-", <<>>))
    /\ UNCHANGED <<lastOp, store, keyCache, now, sessions, sent, initPw, renderer, probe>>

\* ipcMain.handle('unlock-with-touch-id') up to await promptTouchID
UnlockWithTouchIdCall ==
    /\ IF Has(store.touchIdEnabled) /\ Get(store.touchIdEnabled)
       THEN /\ Len(awaiting) < MaxAwaiting
            /\ awaiting' = Append(awaiting, Suspended("unlock-with-touch-id", "-", <<>>))
            /\ UNCHANGED lastOp
       ELSE /\ lastOp' = Fail("unlock-with-touch-id", "Touch ID not enabled")
            /\ UNCHANGED <<awaiting, probe>>
    /\ UNCHANGED <<store, keyCache, now, sessions, sent, initPw, renderer, probe>>

\* variant of unlock-with-touch-id that returns the password it unwrapped
\* without decrypting the check envelope with it
UnlockWithTouchIdResumeUnverified(k, prompt, available) ==
    LET encryptedBase64 == store.touchIdPassword
        masterPassword ==
            IF Has(encryptedBase64) /\ available
            THEN decryptString(fromBase64(Get(encryptedBase64)))
            ELSE None
    IN
    /\ awaiting[k].op = "unlock-with-touch-id"
    /\ lastOp' = IF prompt = "rejected" THEN Fail("unlock-with-touch-id", "prompt")
                 ELSE IF ~Has(masterPassword)
                      THEN Fail("unlock-with-touch-id", "unwrap")
                      ELSE Op("unlock-with-touch-id", Get(masterPassword),
                              0, FALSE, TRUE, 0)
    /\ awaiting' = RemoveAt(awaiting, k)
    /\ UNCHANGED <<store, keyCache, now, sessions, sent, initPw, renderer, probe>>

\* the prompt of the k-th suspended call settles: the rest of
\* unlock-with-touch-id.  Buffer.from(undefined) throws when the secret is
\* gone, safeStorage.decryptString throws unless it can unseal the bytes, and
\* decrypt throws unless the key authenticates the check envelope.
UnlockWithTouchIdResume(k, prompt, available) ==
    LET encryptedBase64 == store.touchIdPassword
        masterPassword ==
            IF Has(encryptedBase64) /\ available
            THEN decryptString(fromBase64(Get(encryptedBase64)))
            ELSE None
    IN
    /\ awaiting[k].op = "unlock-with-touch-id"
    /\ IF prompt = "rejected"
       THEN /\ lastOp' = Fail("unlock-with-touch-id", "prompt")
            /\ UNCHANGED keyCache
       ELSE IF ~Has(masterPassword)
       THEN /\ lastOp' = Fail("unlock-with-touch-id", "unwrap")
            /\ UNCHANGED keyCache
       ELSE LET d == decrypt(keyCache, store.vaultCheck, Get(masterPassword)) IN
            /\ keyCache' = d.cache
            /\ lastOp' = IF ~Has(d.res)
                         THEN Fail("unlock-with-touch-id", "decrypt")
                         ELSE IF Get(d.res) # VaultCheckText
                         THEN Fail("unlock-with-touch-id", "Stored password invalid")
                         ELSE Op("unlock-with-touch-id", Get(masterPassword),
                                 0, FALSE, TRUE, 0)
    /\ awaiting' = RemoveAt(awaiting, k)
    /\ UNCHANGED <<store, now, sessions, sent, initPw, renderer, probe>>

NextTouch ==
    \/ \E pw \in Passwords, salt \in Salts, iv \in IVs :
          CreateVault(pw, salt, iv) /\ MainOnly
    \/ \E p \in Payloads, salt \in Salts, iv \in IVs :
          SavePassword("pw1", p, salt, iv) /\ MainOnly
    \/ \E pw \in Passwords, canPrompt \in BOOLEAN : EnableTouchIdCall(pw, canPrompt)
    \/ \E k \in 1..Len(awaiting), prompt \in {"resolved", "rejected"},
          available \in BOOLEAN : EnableTouchIdResume(k, prompt, available)
    \/ DisableTouchId
    \/ UnlockWithTouchIdCall
    \/ \E k \in 1..Len(awaiting), prompt \in {"resolved", "rejected"},
          available \in BOOLEAN : UnlockWithTouchIdResume(k, prompt, available)

SpecTouch == Init /\ [][NextTouch]_vars

-----------------------------------------------------------------------------
(* Claims about Touch ID, checked under SpecTouch *)

\* the password sealed in the stored secret
Sealed == Get(decryptString(fromBase64(Get(store.touchIdPassword))))

C15_PromptFailure ==
    [][((IsCall("enable-touch-id") \/ IsCall("unlock-with-touch-id"))
            /\ lastOp'.error = "prompt") =>
          /\ ~lastOp'.ok
          /\ ~lastOp'.raised
          /\ lastOp'.pw = "-"
          /\ store' = store]_vars

\* the prompt of an enable-touch-id was rejected and nothing is stored
C15_Witness ==
    /\ lastOp.op = "enable-touch-id"
    /\ lastOp.error = "prompt"
    /\ ~Has(store.touchIdPassword)
    /\ ~Has(store.touchIdEnabled)
    /\ Has(store.vaultCheck)

\* what encrypt returns: the ciphertext, the iv, the salt and the tag, under a
\* key derived from some password and the salt
IsCipherEnvelope(e) ==
    /\ DOMAIN e = {"encrypted", "iv", "salt", "tag"}
    /\ \E pw \in Passwords :
          /\ e.encrypted.key = pbkdf2(pw, e.salt)
          /\ e.tag = GcmTag(pbkdf2(pw, e.salt), e.iv, e.encrypted)

\* the texts that can be read off the store without a key
Cleartext ==
    (IF Has(store.vaultCheck)
     THEN {Get(store.vaultCheck).iv, Get(store.vaultCheck).salt} ELSE {})
    \cup UNION {{VaultOrEmpty[j].data.iv, VaultOrEmpty[j].data.salt} :
                    j \in 1..Len(VaultOrEmpty)}
    \cup (IF Has(store.touchIdPassword)
              /\ fromBase64(Get(store.touchIdPassword)).kind = "utf8"
          THEN {fromBase64(Get(store.touchIdPassword)).text} ELSE {})

\* C16. The master password is never stored in cleartext: the check envelope
\* and the data of every record are cipher envelopes, a record has besides
\* only its id, the flag is a boolean, the secret is bytes sealed by
\* safeStorage, and no text that can be read off the store is a password.
C16_NoCleartextPassword ==
    /\ Has(store.vaultCheck) => IsCipherEnvelope(Get(store.vaultCheck))
    /\ \A j \in 1..Len(VaultOrEmpty) :
          /\ DOMAIN VaultOrEmpty[j] = {"id", "data"}
          /\ VaultOrEmpty[j].id \in Nat
          /\ IsCipherEnvelope(VaultOrEmpty[j].data)
    /\ Has(store.touchIdEnabled) => Get(store.touchIdEnabled) \in BOOLEAN
    /\ Has(store.touchIdPassword) =>
          fromBase64(Get(store.touchIdPassword)).kind = "safeStorage"
    /\ Cleartext \cap Passwords = {}

\* a check envelope, a record and a sealed secret are stored
C16_Witness ==
    /\ Has(store.vaultCheck)
    /\ Len(VaultOrEmpty) > 0
    /\ Has(store.touchIdPassword)
    /\ checkTouchIdEnabled

-----------------------------------------------------------------------------
(* The handlers on a damaged store, and on a store that throws *)

\* the check envelope of a vault created with "pw1"
GoodCheck == encrypt(<<>>, VaultCheckText, "pw1", "s1", "iv1").env

\* check envelopes that decrypt throws on under every password: a field that
\* is missing (Buffer.from(undefined, 'hex') throws), a salt, a tag or a
\* ciphertext with bytes changed (decipher.final() throws)
MalformedChecks ==
    {[GoodCheck EXCEPT !.iv = "undefined"],
     [GoodCheck EXCEPT !.salt = "zz"],
     [GoodCheck EXCEPT !.tag = GcmTag(GoodCheck.encrypted.key, "zz", GoodCheck.encrypted)],
     [GoodCheck EXCEPT !.encrypted = GcmEncrypt(GoodCheck.encrypted.key, "iv1", <<"x">>)]}

\* what the store file may hold when the process starts: nothing, a vault of
\* "pw1" with or without a record, the same with a damaged check envelope, or
\* with the envelope of a record where the check envelope should be
InitFaults ==
    /\ \/ store = EmptyStore
       \/ \E n \in 0..1 :
          \E check \in {GoodCheck, StoredVault(1, "pw1", {})[1].data} \cup MalformedChecks :
             store = [EmptyStore EXCEPT !.vault = Some(StoredVault(n, "pw1", {})),
                                        !.vaultCheck = Some(check)]
    /\ keyCache = <<>>
    /\ now = 1
    /\ sessions = <<>>
    /\ sent = <<>>
    /\ lastOp = NoOp
    /\ initPw = "-"
    /\ awaiting = <<>>
    /\ renderer = NoRenderer
    /\ probe = NoProbe

\* the handlers whose store accesses are inside try { } catch
Catching ==
    {"unlock-vault", "get-passwords", "save-password", "delete-password",
     "update-password", "import-passwords", "export-passwords", "clear-vault",
     "enable-touch-id", "unlock-with-touch-id"}

\* the handlers whose store accesses are outside any try { } catch
NotCatching ==
    {"check-vault-exists", "create-vault", "check-touch-id-enabled", "disable-touch-id"}

\* An IPC call during which the store throws at the handler's first access to
\* it (the file cannot be read or written); the handlers that await a dialog or
\* a prompt are taken from the moment it has resolved.  Nothing is stored.
\* create-vault has encrypted the sentinel by then, enable-touch-id has sealed
\* the password; the other handlers reach the store first.  A handler that
\* catches returns its failure value ({ items: [], total: 0 } for
\* get-passwords); the others throw.
StoreThrows(name, masterPassword, salt, iv) ==
    /\ lastOp' = IF name \in NotCatching THEN Raise(name)
                 ELSE IF name = "get-passwords"
                 THEN [Op(name, masterPassword, 0, FALSE, TRUE, 0) EXCEPT !.error = "store"]
                 ELSE Fail(name, "store")
    /\ keyCache' = IF name = "create-vault"
                   THEN encrypt(keyCache, VaultCheckText, masterPassword, salt, iv).cache
                   ELSE keyCache
    /\ UNCHANGED <<store, now, sessions, sent, initPw>>

NextFaults ==
    \/ \E pw \in Passwords, salt \in Salts, iv \in IVs :
          CreateVault(pw, salt, iv) /\ MainOnly
    \/ \E pw \in Passwords : UnlockVault(pw) /\ MainOnly
    \/ \E pw \in Passwords : ClearVault(pw) /\ MainOnly
    \/ \E name \in Catching \cup NotCatching, pw \in Passwords,
          salt \in Salts, iv \in IVs : StoreThrows(name, pw, salt, iv) /\ MainOnly

SpecFaults == InitFaults /\ [][NextFaults]_vars

-----------------------------------------------------------------------------
(* Claims about failures, checked under SpecFaults *)

\* C17, as claimed: no IPC call ends in an exception; every failure inside a
\* handler is returned as a value.
C17_AsClaimed == ~lastOp.raised

\* the password decrypts the stored check envelope to 'vault-check'
Verifies(masterPassword) ==
    decrypt(<<>>, store.vaultCheck, masterPassword).res = Some(VaultCheckText)

\* C18. unlock-vault returns false and does not throw whenever the check
\* envelope does not decrypt to 'vault-check' under the password (none is
\* stored, it is damaged, the password is wrong, the store throws); it returns
\* true when it does and the store can be read; and it leaves the store as it
\* was.
C18_VerifyNeverThrows ==
    [][IsCall("unlock-vault") =>
          /\ ~lastOp'.raised
          /\ store' = store
          /\ lastOp'.ok => Verifies(lastOp'.pw)
          /\ lastOp'.error = "-" => (lastOp'.ok <=> Verifies(lastOp'.pw))]_vars

\* unlock-vault has returned false on a damaged check envelope
C18_Witness ==
    /\ lastOp.op = "unlock-vault"
    /\ ~lastOp.ok
    /\ lastOp.pw = "pw1"
    /\ Has(store.vaultCheck)
    /\ Get(store.vaultCheck) \in MalformedChecks

-----------------------------------------------------------------------------
(* The renderer: handleUnlock, handleLock and the listeners of preload.js *)

RendererOnly ==
    UNCHANGED <<store, keyCache, now, sessions, sent, lastOp, initPw, awaiting, probe>>

\* batch.map(item => ({ ...item, type: item.type || 'password', ... }))
Normalize(batch) ==
    [j \in 1..Len(batch) |->
        [id |-> batch[j].id, site |-> batch[j].site, type |-> "password"]]

\* the reply the renderer awaits is the next message it gets: every event sent
\* before it has been dispatched
ReplyIsNext ==
    /\ renderer.replies # <<>>
    /\ renderer.replies[1].after = renderer.delivered

\* handleUnlock up to await unlockVault, with the handler of unlock-vault.
\* The form is rendered on the unlock screen while loading is false.
HandleUnlock(masterPassword) ==
    /\ renderer.screen = "unlock"
    /\ ~renderer.loading
    /\ renderer.pc = "idle"
    /\ Len(renderer.pendingItems) < MaxUnlocks
    /\ UnlockVault(masterPassword)
    /\ renderer' = [renderer EXCEPT
                       !.masterPassword = masterPassword,
                       !.loading = TRUE,
                       !.pc = "unlockVault",
                       !.replies = <<[after |-> Len(sent), ok |-> lastOp'.ok,
                                      total |-> 0]>>]
    /\ UNCHANGED <<awaiting, probe>>

\* unlockVault has answered: on success the two listeners are registered
\* with a new pendingItems, on failure loading ends
UnlockVaultReplied ==
    LET c == Len(renderer.pendingItems) + 1 IN
    /\ renderer.pc = "unlockVault"
    /\ ReplyIsNext
    /\ renderer' =
          IF renderer.replies[1].ok
          THEN [renderer EXCEPT
                   !.pendingItems = Append(@, <<>>),
                   !.listeners = @ \o <<[ch |-> "passwords-batch", c |-> c],
                                        [ch |-> "passwords-complete", c |-> c]>>,
                   !.pc = "invoke",
                   !.replies = <<>>]
          ELSE [renderer EXCEPT !.loading = FALSE, !.pc = "idle", !.replies = <<>>]
    /\ RendererOnly

\* window.electronAPI.getPasswords(masterPassword), with the handler of
\* get-passwords up to its return
InvokeGetPasswords ==
    /\ renderer.pc = "invoke"
    /\ GetPasswords(renderer.masterPassword)
    /\ renderer' = [renderer EXCEPT
                       !.pc = "getPasswords",
                       !.replies = <<[after |-> Len(sent'), ok |-> TRUE,
                                      total |-> lastOp'.total]>>]
    /\ UNCHANGED <<awaiting, probe>>

\* variant of the reply of getPasswords that keeps the listeners when the
\* vault is empty
GetPasswordsRepliedKeepsListeners ==
    /\ renderer.pc = "getPasswords"
    /\ ReplyIsNext
    /\ renderer' =
          IF renderer.replies[1].total = 0
          THEN [renderer EXCEPT
                   !.loading = FALSE,
                   !.screen = "vault",
                   !.pc = "idle",
                   !.replies = <<>>]
          ELSE [renderer EXCEPT !.screen = "vault", !.pc = "idle", !.replies = <<>>]
    /\ RendererOnly

\* getPasswords has answered: with total = 0 the listeners of this call are
\* removed and loading ends; the vault screen is shown
GetPasswordsReplied ==
    LET c == Len(renderer.pendingItems)
        Others(l) == l.c # c
    IN
    /\ renderer.pc = "getPasswords"
    /\ ReplyIsNext
    /\ renderer' =
          IF renderer.replies[1].total = 0
          THEN [renderer EXCEPT
                   !.listeners = SelectSeq(@, Others),
                   !.loading = FALSE,
                   !.screen = "vault",
                   !.pc = "idle",
                   !.replies = <<>>]
          ELSE [renderer EXCEPT !.screen = "vault", !.pc = "idle", !.replies = <<>>]
    /\ RendererOnly

\* ipcRenderer dispatches the next event to the listeners of its channel, in
\* the order they were registered.  A batch listener pushes the batch on its
\* pendingItems and sets the items to a copy; a completion listener removes
\* the two listeners of its call and ends loading.
Dispatch ==
    LET e == sent[renderer.delivered + 1]
        hit == {renderer.listeners[l].c : l \in {x \in 1..Len(renderer.listeners) :
                                                    renderer.listeners[x].ch = e.ch}}
        last == CHOOSE c \in hit : \A d \in hit : d <= c
        pushed == [c \in 1..Len(renderer.pendingItems) |->
                      IF c \in hit THEN renderer.pendingItems[c] \o Normalize(e.items)
                      ELSE renderer.pendingItems[c]]
        Others(l) == l.c \notin hit
    IN
    /\ renderer.delivered < Len(sent)
    /\ ~ReplyIsNext
    /\ renderer' =
          IF hit = {} THEN [renderer EXCEPT !.delivered = @ + 1]
          ELSE IF e.ch = "passwords-batch"
          THEN [renderer EXCEPT !.pendingItems = pushed,
                                !.items = pushed[last],
                                !.delivered = @ + 1]
          ELSE [renderer EXCEPT !.listeners = SelectSeq(@, Others),
                                !.loading = FALSE,
                                !.delivered = @ + 1]
    /\ RendererOnly

\* handleLock: the Lock button of the vault screen
HandleLock ==
    /\ renderer.screen = "vault"
    /\ renderer' = [renderer EXCEPT !.masterPassword = "", !.items = <<>>,
                                    !.screen = "unlock"]
    /\ RendererOnly

\* a vault of "pw1" with up to MaxRecords records, its check envelope under a
\* salt of its own, the App on its unlock screen
InitRenderer ==
    /\ \E n \in 0..MaxRecords :
          store = [EmptyStore EXCEPT
                      !.vault = Some(StoredVault(n, "pw1", {})),
                      !.vaultCheck = Some(encrypt(<<>>, VaultCheckText, "pw1",
                                                  "s0", "iv1").env)]
    /\ keyCache = <<>>
    /\ now = 1
    /\ sessions = <<>>
    /\ sent = <<>>
    /\ lastOp = NoOp
    /\ initPw = "pw1"
    /\ awaiting = <<>>
    /\ renderer = NoRenderer
    /\ probe = NoProbe

NextRenderer ==
    \/ \E pw \in Passwords : HandleUnlock(pw)
    \/ UnlockVaultReplied
    \/ InvokeGetPasswords
    \/ GetPasswordsReplied
    \/ Dispatch
    \/ HandleLock
    \/ LoopStep

SpecRenderer == InitRenderer /\ [][NextRenderer]_vars

-----------------------------------------------------------------------------
(* Claims about the renderer, checked under SpecRenderer *)

\* C12, as claimed: once the vault is locked the renderer has no listener
\* registered and its item list is empty, until the next unlock succeeds:
\* whenever the unlock screen is shown and no handleUnlock is under way, there
\* is no listener and no item.
C12_AsClaimed ==
    (renderer.screen = "unlock" /\ renderer.pc = "idle") =>
        (renderer.listeners = <<>> /\ renderer.items = <<>>)

\* ---------------------------------------------------------------------------
\* The reply of get-passwords (SpecPipeline)
\* ---------------------------------------------------------------------------

\* C21: a call of get-passwords replies in its own step, before any batch or
\* completion signal of its session: the step sends no event, the session it
\* opens (if any) stands before its first batch with no event of its own, and
\* the total of the reply is the number of stored records at the call, the
\* records that will fail to decrypt included.
C21_ImmediateReply ==
    [][IsCall("get-passwords") =>
          /\ sent' = sent
          /\ lastOp'.ok
          /\ lastOp'.total = Len(VaultOrEmpty)
          /\ IF EmptyOrAbsent(store.vault)
             THEN sessions' = sessions
             ELSE /\ Len(sessions') = Len(sessions) + 1
                  /\ sessions'[Len(sessions')].vault = VaultOrEmpty
                  /\ sessions'[Len(sessions')].i = 0
                  /\ sessions'[Len(sessions')].phase = "deriving"
                  /\ \A j \in 1..Len(sent') : sent'[j].sid # Len(sessions')]_vars

\* a reply whose total counts a record that cannot be decrypted, given while
\* the session has sent nothing
C21_Witness ==
    /\ lastOp.op = "get-passwords"
    /\ Len(sessions) = 1
    /\ sessions[1].phase = "deriving"
    /\ sessions[1].i = 0
    /\ sent = <<>>
    /\ lastOp.total = Len(sessions[1].vault)
    /\ \E j \in 1..Len(sessions[1].vault) :
           ~Readable(sessions[1].vault[j], sessions[1].pw)

\* ---------------------------------------------------------------------------
\* The frame of save-password and update-password (Spec)
\* ---------------------------------------------------------------------------

\* C29, as claimed: save-password appends exactly one record at the end of
\* the collection and returns its id, the records already stored keep their
\* id, envelope and position, the check envelope is unchanged, and deleting
\* the returned id afterwards (keeping the records with another id) gives
\* back the collection as it was before the call.
C29_AsClaimed ==
    [][IsCall("save-password") =>
          LET old == VaultOrEmpty
              new == Get(store'.vault)
              Keep(item) == item.id # lastOp'.id
          IN  /\ Has(store'.vault)
              /\ Len(new) = Len(old) + 1
              /\ \A j \in 1..Len(old) : new[j] = old[j]
              /\ new[Len(new)].id = lastOp'.id
              /\ store'.vaultCheck = store.vaultCheck
              /\ SelectSeq(new, Keep) = old]_vars

\* the part of C29 that the handler does keep: one record appended, whose
\* id is returned, and nothing else of the store changed
C29_AppendOnly ==
    [][IsCall("save-password") =>
          /\ Has(store'.vault)
          /\ \E entry \in {Get(store'.vault)[Len(Get(store'.vault))]} :
                /\ entry.id = lastOp'.id
                /\ store' = [store EXCEPT !.vault = Some(Append(VaultOrEmpty, entry))]]_vars

\* C30: update-password with an id of the collection returns true and
\* replaces the envelope of the first record with that id, in place: that
\* record keeps its id and position, the collection keeps its length, and
\* every other record and the rest of the store are unchanged.
C30_UpdateInPlace ==
    [][(IsCall("update-password") /\ lastOp'.id \in Ids(VaultOrEmpty)) =>
          LET old == VaultOrEmpty
              new == Get(store'.vault)
              index == FindIndex(old, lastOp'.id)
          IN  /\ lastOp'.ok
              /\ Has(store'.vault)
              /\ Len(new) = Len(old)
              /\ new[index].id = lastOp'.id
              /\ IsCipherEnvelope(new[index].data)
              /\ \A j \in 1..Len(old) : j # index => new[j] = old[j]
              /\ store' = [store EXCEPT !.vault = Some(new)]]_vars

\* an update that has replaced the envelope of the first of two records
C30_Witness ==
    /\ lastOp.op = "update-password"
    /\ lastOp.ok
    /\ Len(VaultOrEmpty) = 2
    /\ VaultOrEmpty[1].id = lastOp.id
    /\ VaultOrEmpty[2].id # lastOp.id
    /\ VaultOrEmpty[1].data # VaultOrEmpty[2].data

-----------------------------------------------------------------------------
(* The cipher called directly: encrypt, then decrypt or decryptAsync of the  *)
(* envelope, as it is or altered, next to create-vault and unlock-vault      *)

\* the passwords of the direct calls: "pw1\\0" is "pw1" and a NUL character
CipherPasswords == Passwords \cup {"pw1\\0"}

CodeUnits == {HiSurrogate, LoSurrogate}

\* the plaintexts: every string of at most MaxText code units
CipherTexts == UNION {[1..n -> CodeUnits] : n \in 0..MaxText}

\* no surrogate without its other half
RECURSIVE WellFormed(_)
WellFormed(text) ==
    IF text = <<>> THEN TRUE
    ELSE IF text[1] = HiSurrogate
    THEN Len(text) >= 2 /\ text[2] = LoSurrogate
            /\ WellFormed(SubSeq(text, 3, Len(text)))
    ELSE text[1] # LoSurrogate /\ WellFormed(Tail(text))

\* the ways an envelope is altered before decrypt gets it
Edits ==
    {"none", "ciphertext", "tag", "tag-cut", "tag-length", "iv", "iv-junk",
     "salt-junk"}

\* the envelope after the edit: bytes of the ciphertext or of the tag changed,
\* the tag cut to its first 4 bytes or to 5 bytes, an iv that is no
\* hexadecimal text, an iv or a salt followed by "zz"
Altered(env, edit) ==
    CASE edit = "ciphertext" -> [env EXCEPT !.encrypted.pt = <<"x">> \o @]
      [] edit = "tag" -> [env EXCEPT !.tag.ct.pt = <<"x">> \o @]
      [] edit = "tag-cut" -> [env EXCEPT !.tag.len = 4]
      [] edit = "tag-length" -> [env EXCEPT !.tag.len = 5]
      [] edit = "iv" -> [env EXCEPT !.iv = "zz"]
      [] edit = "iv-junk" -> [env EXCEPT !.iv = "iv1zz"]
      [] edit = "salt-junk" -> [env EXCEPT !.salt = "s1zz"]
      [] OTHER -> env

\* a cache of n keys that deriveKeyAsync inserted for the records of a vault
\* of the password "bulk", each record with a salt of its own
Filled(n) ==
    [j \in 1..n |-> [k |-> CacheKey("bulk", ToString(j)),
                     v |-> pbkdf2("bulk", ToString(j))]]

ProbeOnly == UNCHANGED <<store, now, sessions, sent, lastOp, initPw, awaiting, renderer>>

\* encrypt(text, masterPassword)
ProbeEncrypt(text, masterPassword, salt, iv) ==
    LET e == encrypt(keyCache, text, masterPassword, salt, iv) IN
    /\ keyCache' = e.cache
    /\ probe' = [probe EXCEPT !.fn = "encrypt", !.pw = masterPassword,
                              !.salt = salt, !.text = text,
                              !.sealedPw = masterPassword, !.env = Some(e.env),
                              !.edit = "-", !.res = None]
    /\ ProbeOnly

\* decrypt(envelope, masterPassword) of the last envelope, altered by edit
ProbeDecrypt(masterPassword, edit) ==
    /\ Has(probe.env)
    /\ LET d == decrypt(keyCache, Some(Altered(Get(probe.env), edit)), masterPassword)
       IN  /\ keyCache' = d.cache
           /\ probe' = [probe EXCEPT !.fn = "decrypt", !.pw = masterPassword,
                                     !.edit = edit, !.res = d.res]
    /\ ProbeOnly

\* await decryptAsync(envelope, masterPassword), the same
ProbeDecryptAsync(masterPassword, edit) ==
    /\ Has(probe.env)
    /\ LET d == decryptAsync(keyCache, Some(Altered(Get(probe.env), edit)),
                             masterPassword)
       IN  /\ keyCache' = d.cache
           /\ probe' = [probe EXCEPT !.fn = "decryptAsync", !.pw = masterPassword,
                                     !.edit = edit, !.res = d.res]
    /\ ProbeOnly

\* the main process is started again: the module is loaded with an empty
\* keyCache, what the caller holds (the envelope) is as it was
Restart ==
    /\ keyCache # <<>>
    /\ keyCache' = <<>>
    /\ UNCHANGED <<store, now, sessions, sent, lastOp, initPw, awaiting, renderer,
                   probe>>

\* nothing stored, no key derived yet
InitCipher ==
    /\ store = EmptyStore
    /\ keyCache = <<>>
    /\ now = 0
    /\ sessions = <<>>
    /\ sent = <<>>
    /\ lastOp = NoOp
    /\ initPw = "-"
    /\ awaiting = <<>>
    /\ renderer = NoRenderer
    /\ probe = NoProbe

\* the calls of decrypt: the envelope as it is with any password, or altered
\* with the password it was made with
DecryptCalls ==
    {c \in [pw : CipherPasswords, edit : Edits] :
        c.edit = "none" \/ c.pw = probe.sealedPw}

\* either the direct calls, or a vault that is created and unlocked
NextCipher ==
    \/ /\ ~Has(store.vaultCheck)
       /\ \E text \in CipherTexts, pw \in CipherPasswords, salt \in Salts, iv \in IVs :
             ProbeEncrypt(text, pw, salt, iv)
    \/ \E c \in DecryptCalls : ProbeDecrypt(c.pw, c.edit)
    \/ \E c \in DecryptCalls : ProbeDecryptAsync(c.pw, c.edit)
    \/ /\ probe = NoProbe
       /\ \E pw \in CipherPasswords, salt \in Salts, iv \in IVs :
             CreateVault(pw, salt, iv) /\ MainOnly
    \/ /\ probe = NoProbe
       /\ \E pw \in CipherPasswords : UnlockVault(pw) /\ MainOnly
    \/ Restart

SpecCipher == InitCipher /\ [][NextCipher]_vars

-----------------------------------------------------------------------------
(* Claims about the cipher, checked under SpecCipher *)

\* the last direct call was a decrypt or a decryptAsync
Decrypted == probe.fn \in {"decrypt", "decryptAsync"}

\* C22, as claimed: for every plaintext string P and every password W,
\* decrypt and decryptAsync of the envelope encrypt(P, W) with W return P,
\* whatever the key cache holds.
C22_AsClaimed ==
    (Decrypted /\ probe.edit = "none" /\ probe.pw = probe.sealedPw) =>
        probe.res = Some(probe.text)

\* C22, amended: for every plaintext P that has no surrogate code unit
\* without its other half, and every password W, decrypt and decryptAsync of
\* the envelope encrypt(P, W) with W return P, whatever the key cache holds;
\* for any other P they return P with each such code unit replaced by U+FFFD.
C22_RoundTrip ==
    (Decrypted /\ probe.edit = "none" /\ probe.pw = probe.sealedPw) =>
        /\ probe.res = Some(utf8Decode(utf8Encode(probe.text)))
        /\ WellFormed(probe.text) => probe.res = Some(probe.text)

\* a plaintext with a surrogate pair that came back from decryptAsync
C22_Witness ==
    /\ probe.fn = "decryptAsync"
    /\ probe.edit = "none"
    /\ probe.pw = probe.sealedPw
    /\ probe.text = <<HiSurrogate, LoSurrogate>>
    /\ probe.res = Some(probe.text)
    /\ Len(keyCache) = 1

\* C23, as claimed: decrypt and decryptAsync of an envelope with a password
\* other than the one it was made with fail and return no plaintext, and
\* unlock-vault with a password other than the one of create-vault answers
\* false.
C23_AsClaimed ==
    /\ (Decrypted /\ probe.edit = "none" /\ probe.pw # probe.sealedPw) =>
           probe.res = None
    /\ (lastOp.op = "unlock-vault" /\ initPw # "-" /\ lastOp.pw # initPw) =>
           ~lastOp.ok

\* C24, as claimed: decrypt and decryptAsync of an envelope whose ciphertext
\* or tag was altered, or whose iv, salt or tag is not hexadecimal text of the
\* expected length, fail and return no plaintext.
C24_AsClaimed ==
    (Decrypted /\ probe.edit # "none") => probe.res = None

-----------------------------------------------------------------------------
(* The key deriver called directly: deriveKey and deriveKeyAsync, the        *)
(* callbacks of pbkdf2 in any order                                          *)

\* the (password, salt) pairs of the direct calls: two salts of one password,
\* two passwords of one salt
DerivePairs ==
    {[pw |-> "pw1", salt |-> "s1"], [pw |-> "pw1", salt |-> "s2"],
     [pw |-> "pw2", salt |-> "s1"]}

\* deriveKey(password, salt)
ProbeDeriveKey(password, salt) ==
    LET d == deriveKey(keyCache, password, salt) IN
    /\ keyCache' = d.cache
    /\ probe' = [probe EXCEPT !.fn = "deriveKey", !.pw = password, !.salt = salt,
                              !.key = Some(d.key)]
    /\ ProbeOnly

\* deriveKeyAsync(password, salt) up to the call of crypto.pbkdf2: a hit
\* resolves with the cached key, a miss leaves the derivation in flight
ProbeDeriveKeyAsync(password, salt) ==
    LET ck == CacheKey(password, salt) IN
    /\ Len(probe.inflight) < MaxInflight
    /\ probe' =
          IF CacheHas(keyCache, ck)
          THEN [probe EXCEPT !.fn = "deriveKeyAsync", !.pw = password,
                             !.salt = salt, !.key = Some(CacheGet(keyCache, ck))]
          ELSE [probe EXCEPT !.inflight = Append(@, [pw |-> password, salt |-> salt])]
    /\ UNCHANGED keyCache
    /\ ProbeOnly

\* variant of the callback that inserts without looking for the key
ProbeDeriveCallbackAppends(k) ==
    /\ k \in 1..Len(probe.inflight)
    /\ LET c == probe.inflight[k]
           key == pbkdf2(c.pw, c.salt)
       IN  /\ keyCache' = CacheEvict(Append(keyCache, [k |-> CacheKey(c.pw, c.salt),
                                                       v |-> key]),
                                     AsyncCacheLimit)
           /\ probe' = [probe EXCEPT !.fn = "callback", !.pw = c.pw, !.salt = c.salt,
                                     !.key = Some(key),
                                     !.inflight = RemoveAt(@, k)]
    /\ ProbeOnly

\* the pbkdf2 callback of the k-th derivation in flight
ProbeDeriveCallback(k) ==
    /\ k \in 1..Len(probe.inflight)
    /\ LET c == probe.inflight[k]
           key == pbkdf2(c.pw, c.salt)
       IN  /\ keyCache' = CacheEvict(CacheSet(keyCache, CacheKey(c.pw, c.salt), key),
                                     AsyncCacheLimit)
           /\ probe' = [probe EXCEPT !.fn = "callback", !.pw = c.pw, !.salt = c.salt,
                                     !.key = Some(key),
                                     !.inflight = RemoveAt(@, k)]
    /\ ProbeOnly

\* a cache that the bulk path has filled to one key below the limit of
\* deriveKey
InitCache ==
    /\ store = EmptyStore
    /\ keyCache = Filled(SyncCacheLimit - 1)
    /\ now = 0
    /\ sessions = <<>>
    /\ sent = <<>>
    /\ lastOp = NoOp
    /\ initPw = "-"
    /\ awaiting = <<>>
    /\ renderer = NoRenderer
    /\ probe = NoProbe

NextCache ==
    \/ \E c \in DerivePairs : ProbeDeriveKey(c.pw, c.salt)
    \/ \E c \in DerivePairs : ProbeDeriveKeyAsync(c.pw, c.salt)
    \/ \E k \in 1..MaxInflight : ProbeDeriveCallback(k)

SpecCache == InitCache /\ [][NextCache]_vars

\* the same calls for the two salts of one password, on a cache that the bulk
\* path has filled to one key below the limit of deriveKeyAsync
BulkPairs == {c \in DerivePairs : c.pw = "pw1"}

InitBulk ==
    /\ store = EmptyStore
    /\ keyCache = Filled(AsyncCacheLimit - 1)
    /\ now = 0
    /\ sessions = <<>>
    /\ sent = <<>>
    /\ lastOp = NoOp
    /\ initPw = "-"
    /\ awaiting = <<>>
    /\ renderer = NoRenderer
    /\ probe = NoProbe

NextBulk ==
    \/ \E c \in BulkPairs : ProbeDeriveKey(c.pw, c.salt)
    \/ \E c \in BulkPairs : ProbeDeriveKeyAsync(c.pw, c.salt)
    \/ \E k \in 1..MaxInflight : ProbeDeriveCallback(k)

SpecBulk == InitBulk /\ [][NextBulk]_vars

-----------------------------------------------------------------------------
(* Claims about the key deriver, checked under SpecCache and SpecBulk *)

\* the cache key as the text it is: the characters of the password, a colon,
\* two hexadecimal digits for every byte of the salt
HexDigits ==
    <<"0", "1", "2", "3", "4", "5", "6", "7", "8", "9", "a", "b", "c", "d", "e", "f">>

RECURSIVE toHex(_)
toHex(bytes) ==
    IF bytes = <<>> THEN <<>>
    ELSE <<HexDigits[(bytes[1] \div 16) + 1], HexDigits[(bytes[1] % 16) + 1]>>
            \o toHex(Tail(bytes))

cacheKeyText(password, salt) == password \o <<":">> \o toHex(salt)

\* passwords of up to MaxText characters, colons and digits among them, and
\* salts of up to MaxText bytes
PasswordTexts == UNION {[1..n -> {"a", ":", "0"}] : n \in 0..MaxText}
SaltBytes == UNION {[1..n -> {0, 10, 160}] : n \in 0..MaxText}

\* no two (password, salt) pairs have the same cache key text
CacheKeyInjective ==
    Cardinality({cacheKeyText(pw, salt) : pw \in PasswordTexts, salt \in SaltBytes})
        = Cardinality(PasswordTexts) * Cardinality(SaltBytes)

\* the positions of the cache that hold the key of (password, salt)
EntriesOf(cache, password, salt) ==
    {i \in 1..Len(cache) : cache[i].k = CacheKey(password, salt)}

\* C25: whatever calls of deriveKey and deriveKeyAsync, hits and evictions
\* came before, the key a call resolves to is the key pbkdf2 derives from its
\* password and salt, every entry of the cache holds the key of the pair it
\* is filed under, and no two pairs have the same cache key.
C25_CacheTransparency ==
    /\ probe.fn \in {"deriveKey", "deriveKeyAsync", "callback"} =>
           probe.key = Some(pbkdf2(probe.pw, probe.salt))
    /\ \A c \in DerivePairs :
           /\ deriveKey(keyCache, c.pw, c.salt).key = pbkdf2(c.pw, c.salt)
           /\ deriveKeyAsync(keyCache, c.pw, c.salt).key = pbkdf2(c.pw, c.salt)
           /\ Cardinality(EntriesOf(keyCache, c.pw, c.salt)) <= 1
           /\ \A d \in DerivePairs :
                 CacheKey(c.pw, c.salt) = CacheKey(d.pw, d.salt) => c = d
    /\ CacheKeyInjective

\* deriveKey has answered from the cache, after an eviction, with the keys
\* of the other salt and of the other password cached too
C25_Witness ==
    /\ probe.fn = "deriveKey"
    /\ probe.key = Some(pbkdf2(probe.pw, probe.salt))
    /\ keyCache[1].k # CacheKey("bulk", "1")
    /\ \A c \in DerivePairs : EntriesOf(keyCache, c.pw, c.salt) # {}
    /\ EntriesOf(keyCache, probe.pw, probe.salt) # {Len(keyCache)}

\* C26: a step changes the cache only by inserting the key of a pair that was
\* not cached, after every entry there was, and removing at most the one entry
\* that was first (inserted earliest): a hit, and the callback of a pair that
\* is cached already, leave the cache and its order as they were, and the
\* entry just inserted is never the one removed.
C26_OldestFirst ==
    [][/\ keyCache' # keyCache =>
             LET entry == keyCache'[Len(keyCache')] IN
             /\ Len(keyCache') > 0
             /\ ~CacheHas(keyCache, entry.k)
             /\ entry.k = CacheKey(probe'.pw, probe'.salt)
             /\ \/ keyCache' = Append(keyCache, entry)
                \/ keyCache # <<>> /\ keyCache' = Append(Tail(keyCache), entry)
       /\ (probe' # probe /\ probe'.fn \in {"deriveKey", "callback"}) =>
             LET ck == CacheKey(probe'.pw, probe'.salt) IN
             /\ CacheHas(keyCache', ck)
             /\ CacheHas(keyCache, ck) => keyCache' = keyCache
             /\ ~CacheHas(keyCache, ck) => keyCache'[Len(keyCache')].k = ck]_vars

\* a callback has evicted at the limit of deriveKeyAsync: the entry inserted
\* first is gone, the second is now first, the key just inserted is last
C26_Witness ==
    /\ probe.fn = "callback"
    /\ Len(keyCache) = AsyncCacheLimit
    /\ keyCache[1].k = CacheKey("bulk", "2")
    /\ keyCache[Len(keyCache)].k = CacheKey(probe.pw, probe.salt)

\* C27, as claimed: when a call of deriveKey has returned, the cache holds at
\* most 100 entries, whatever calls of deriveKeyAsync ran before.
C27_AsClaimed == probe.fn = "deriveKey" => Len(keyCache) <= SyncCacheLimit

\* a step is the callback of a derivation in flight
IsCallback == Len(probe'.inflight) = Len(probe.inflight) - 1

\* C28: the callback of a derivation resolves with the key of its pair, the
\* same as the key cached for the pair if a racing call has inserted it, and
\* leaves exactly one entry for the pair; a callback that finds the pair
\* cached leaves the cache as it was (the size does not grow, so nothing is
\* evicted), and the cache never holds more than 5000 entries.
C28_RacingHarmless ==
    [][IsCallback =>
          /\ probe'.key = Some(pbkdf2(probe'.pw, probe'.salt))
          /\ Cardinality(EntriesOf(keyCache', probe'.pw, probe'.salt)) = 1
          /\ CacheGet(keyCache', CacheKey(probe'.pw, probe'.salt)) = Get(probe'.key)
          /\ CacheHas(keyCache, CacheKey(probe'.pw, probe'.salt)) =>
                keyCache' = keyCache
          /\ Len(keyCache') <= AsyncCacheLimit]_vars

\* the callback of a second derivation of a pair has run with the cache at
\* its limit: the pair's entry is not the last one, so the first callback
\* inserted it, and a third pair was inserted after it
C28_Witness ==
    /\ probe.fn = "callback"
    /\ Len(keyCache) = AsyncCacheLimit
    /\ EntriesOf(keyCache, probe.pw, probe.salt) = {Len(keyCache) - 1}

\* C34. Global cache bound: whatever calls of deriveKey and deriveKeyAsync
\* and whatever pbkdf2 callbacks have run, in whatever order, the key cache
\* holds at most 5000 entries.
C34_CacheBound == Len(keyCache) <= AsyncCacheLimit

\* a blocking deriveKey has inserted its key into a cache that a callback had
\* brought to the limit: the oldest entry is gone, 5000 entries are left
C34_Witness ==
    /\ probe.fn = "deriveKey"
    /\ Len(keyCache) = AsyncCacheLimit
    /\ keyCache[1].k = CacheKey("bulk", "2")
    /\ keyCache[Len(keyCache)].k = CacheKey(probe.pw, probe.salt)

-----------------------------------------------------------------------------
(* The handlers that only read the store, and delete-password, on what the *)
(* store holds at startup                                                  *)

\* ipcMain.handle('check-vault-exists')
CheckVaultExists ==
    /\ lastOp' = Op("check-vault-exists", "-", 0, FALSE, Has(store.vault), 0)
    /\ UNCHANGED <<store, keyCache, now, sessions, sent, initPw>>

\* ipcMain.handle('check-touch-id-available'); platform is process.platform,
\* canPrompt what systemPreferences.canPromptTouchID() answers
CheckTouchIdAvailable(platform, canPrompt) ==
    /\ lastOp' = Op("check-touch-id-available", "-", 0, FALSE,
                    platform = "darwin" /\ canPrompt, 0)
    /\ UNCHANGED <<store, keyCache, now, sessions, sent, initPw>>

\* ipcMain.handle('check-touch-id-enabled')
CheckTouchIdEnabled ==
    /\ lastOp' = Op("check-touch-id-enabled", "-", 0, FALSE, checkTouchIdEnabled, 0)
    /\ UNCHANGED <<store, keyCache, now, sessions, sent, initPw>>

\* encryptedVault.map(item => JSON.parse(decrypt(item.data, masterPassword)))
\* from item j on: the passwords read, whether an item threw, and the cache
\* left (the key of the item that throws is derived before it throws)
RECURSIVE ExportItems(_, _, _, _)
ExportItems(cache, vault, masterPassword, j) ==
    IF j > Len(vault) THEN [passwords |-> <<>>, threw |-> FALSE, cache |-> cache]
    ELSE LET d == decrypt(cache, Some(vault[j].data), masterPassword)
             parsed == IF Has(d.res) THEN JSONparse(Get(d.res)) ELSE None
         IN  IF ~Has(parsed)
             THEN [passwords |-> <<>>, threw |-> TRUE, cache |-> d.cache]
             ELSE LET rest == ExportItems(d.cache, vault, masterPassword, j + 1) IN
                  [passwords |-> <<Get(parsed)>> \o rest.passwords,
                   threw |-> rest.threw, cache |-> rest.cache]

\* variant of export-passwords that stores an empty collection when none is
\* stored, as delete-password does
ExportPasswordsCallInitializes(masterPassword) ==
    LET encryptedVault == store.vault IN
    /\ IF ~Has(encryptedVault) \/ Len(Get(encryptedVault)) = 0
       THEN /\ lastOp' = Fail("export-passwords", "No passwords to export")
            /\ store' = [store EXCEPT !.vault = Some(<<>>)]
            /\ UNCHANGED <<keyCache, awaiting>>
       ELSE LET r == ExportItems(keyCache, Get(encryptedVault), masterPassword, 1) IN
            /\ keyCache' = r.cache
            /\ UNCHANGED store
            /\ IF r.threw
               THEN /\ lastOp' = Fail("export-passwords", "decrypt")
                    /\ UNCHANGED awaiting
               ELSE /\ Len(awaiting) < MaxAwaiting
                    /\ awaiting' = Append(awaiting,
                           Suspended("export-passwords", masterPassword, r.passwords))
                    /\ UNCHANGED lastOp
    /\ UNCHANGED <<now, sessions, sent, initPw, renderer, probe>>

\* ipcMain.handle('export-passwords') up to await dialog.showSaveDialog: the
\* suspended call holds the passwords it decrypted
ExportPasswordsCall(masterPassword) ==
    LET encryptedVault == store.vault IN
    /\ IF ~Has(encryptedVault) \/ Len(Get(encryptedVault)) = 0
       THEN /\ lastOp' = Fail("export-passwords", "No passwords to export")
            /\ UNCHANGED <<keyCache, awaiting>>
       ELSE LET r == ExportItems(keyCache, Get(encryptedVault), masterPassword, 1) IN
            /\ keyCache' = r.cache
            /\ IF r.threw
               THEN /\ lastOp' = Fail("export-passwords", "decrypt")
                    /\ UNCHANGED awaiting
               ELSE /\ Len(awaiting) < MaxAwaiting
                    /\ awaiting' = Append(awaiting,
                           Suspended("export-passwords", masterPassword, r.passwords))
                    /\ UNCHANGED lastOp
    /\ UNCHANGED <<store, now, sessions, sent, initPw, renderer, probe>>

\* the save dialog of the k-th suspended call resolves: the rest of
\* export-passwords.  dialog is "canceled", "unwritable" (writeFileSync
\* throws) or "file"; the file written is none of the store's.
ExportPasswordsResume(k, dialog) ==
    /\ awaiting[k].op = "export-passwords"
    /\ lastOp' = IF dialog = "canceled" THEN Fail("export-passwords", "canceled")
                 ELSE IF dialog = "unwritable" THEN Fail("export-passwords", "write")
                 ELSE Op("export-passwords", awaiting[k].pw, 0, FALSE, TRUE,
                         Len(awaiting[k].seen))
    /\ awaiting' = RemoveAt(awaiting, k)
    /\ UNCHANGED <<store, keyCache, now, sessions, sent, initPw, renderer, probe>>

\* the records saved under "pw1" with the ids given: ids repeat when two
\* records were made in the same millisecond
StoredRecords(ids) ==
    [j \in 1..Len(ids) |->
        [id |-> ids[j],
         data |-> encrypt(<<>>, JSONstringify([site |-> IF j % 2 = 0 THEN "a.com" ELSE "b.com"]),
                          "pw1", "s1", "iv1").env]]

\* the ids of a stored collection, in the order the records were made
StoredIds ==
    {ids \in UNION {[1..n -> {RandScale, 2 * RandScale}] : n \in 0..(MaxRecords + 1)} :
        \A j \in 1..(Len(ids) - 1) : ids[j] <= ids[j + 1]}

\* the Touch ID fields of a store: never enabled, enabled by "pw1", disabled
StoredTouchIds ==
    {[password |-> None, enabled |-> None],
     [password |-> Some(toBase64(encryptString("pw1"))), enabled |-> Some(TRUE)],
     [password |-> None, enabled |-> Some(FALSE)]}

\* what the store file holds when the process starts: nothing, or a vault of
\* "pw1" with its records and its Touch ID fields
InitStore ==
    /\ \/ store = EmptyStore
       \/ \E ids \in StoredIds, t \in StoredTouchIds :
             store = [vault |-> Some(StoredRecords(ids)),
                      vaultCheck |-> Some(GoodCheck),
                      touchIdPassword |-> t.password,
                      touchIdEnabled |-> t.enabled]
    /\ keyCache = <<>>
    /\ now = 1
    /\ sessions = <<>>
    /\ sent = <<>>
    /\ lastOp = NoOp
    /\ initPw = "-"
    /\ awaiting = <<>>
    /\ renderer = NoRenderer
    /\ probe = NoProbe

NextStore ==
    \/ CheckVaultExists /\ MainOnly
    \/ \E pw \in Passwords : UnlockVault(pw) /\ MainOnly
    \/ CheckTouchIdEnabled /\ MainOnly
    \/ \E id \in IdInputs : DeletePassword(id) /\ MainOnly

SpecStore == InitStore /\ [][NextStore]_vars

-----------------------------------------------------------------------------
(* Claims about what a handler leaves alone, checked under SpecStore *)

\* the records of the collection whose id is not the one given, in order
RECURSIVE Others(_, _)
Others(vault, id) ==
    IF vault = <<>> THEN <<>>
    ELSE IF Head(vault).id = id THEN Others(Tail(vault), id)
    ELSE <<Head(vault)>> \o Others(Tail(vault), id)

\* C31. delete(id) removes every record whose id is the one given and nothing
\* else: the collection stored after delete-password is made of the other
\* records, each with its envelope, in the order they had, and the check
\* envelope, the wrapped secret and the enabled flag are the ones stored before.
C31_DeleteFrame ==
    [][IsCall("delete-password") =>
          /\ store'.vault = Some(Others(VaultOrEmpty, lastOp'.id))
          /\ store'.vaultCheck = store.vaultCheck
          /\ store'.touchIdPassword = store.touchIdPassword
          /\ store'.touchIdEnabled = store.touchIdEnabled]_vars

\* delete-password has removed the two records of one id and left the third,
\* in a store that holds a wrapped secret
C31_Witness ==
    /\ lastOp.op = "delete-password"
    /\ lastOp.found
    /\ Has(store.vault)
    /\ Len(Get(store.vault)) = 1
    /\ lastOp.id \notin Ids(Get(store.vault))
    /\ Has(store.touchIdPassword)

-----------------------------------------------------------------------------
(* The handlers that only read the store, with the background loop of      *)
(* get-passwords, on what the store holds at startup                       *)

\* what the store file holds when the process starts: nothing, or a vault of
\* "pw1" without a record or with one, and its Touch ID fields
InitReadOnly ==
    /\ \/ store = EmptyStore
       \/ \E n \in 0..1, t \in StoredTouchIds :
             store = [vault |-> Some(StoredVault(n, "pw1", {})),
                      vaultCheck |-> Some(GoodCheck),
                      touchIdPassword |-> t.password,
                      touchIdEnabled |-> t.enabled]
    /\ keyCache = <<>>
    /\ now = 1
    /\ sessions = <<>>
    /\ sent = <<>>
    /\ lastOp = NoOp
    /\ initPw = "-"
    /\ awaiting = <<>>
    /\ renderer = NoRenderer
    /\ probe = NoProbe

NextReadOnly ==
    \/ CheckVaultExists /\ MainOnly
    \/ \E pw \in Passwords : UnlockVault(pw) /\ MainOnly
    \/ sessions = <<>> /\ \E pw \in Passwords : GetPasswords(pw) /\ MainOnly
    \/ \E sid \in 1..Len(sessions) :
          \E ck \in DOMAIN sessions[sid].left : DeriveCallback(sid, ck) /\ MainOnly
    \/ \E sid \in 1..Len(sessions) : EmitBatch(sid) /\ MainOnly
    \/ \E sid \in 1..Len(sessions) : TimerFire(sid) /\ MainOnly
    \/ \E pw \in Passwords : ExportPasswordsCall(pw)
    \/ \E k \in 1..Len(awaiting), dialog \in {"canceled", "unwritable", "file"} :
          ExportPasswordsResume(k, dialog)
    \/ \E platform \in {"darwin", "linux"}, canPrompt \in BOOLEAN :
          CheckTouchIdAvailable(platform, canPrompt) /\ MainOnly
    \/ CheckTouchIdEnabled /\ MainOnly
    \/ UnlockWithTouchIdCall
    \/ \E k \in 1..Len(awaiting), prompt \in {"resolved", "rejected"},
          available \in BOOLEAN : UnlockWithTouchIdResume(k, prompt, available)

SpecReadOnly == InitReadOnly /\ [][NextReadOnly]_vars

-----------------------------------------------------------------------------
(* Claims about the handlers that only read, checked under SpecReadOnly *)

\* the channels of the handlers that only read
ReadOnlyChannels ==
    {"check-vault-exists", "unlock-vault", "get-passwords", "export-passwords",
     "check-touch-id-available", "check-touch-id-enabled", "unlock-with-touch-id"}

\* C38. Read-only operations leave the store unchanged: a step in which
\* check-vault-exists, unlock-vault, get-passwords, export-passwords,
\* check-touch-id-available, check-touch-id-enabled or unlock-with-touch-id
\* replies (with success or with failure) or suspends at its dialog or its
\* prompt, and every step of the background loop of get-passwords, leaves the
\* collection, the check envelope, the wrapped secret and the enabled flag as
\* they were stored.
C38_ReadOnly ==
    [][(\/ lastOp' # lastOp /\ lastOp'.op \in ReadOnlyChannels
        \/ awaiting' # awaiting
        \/ sessions' # sessions
        \/ sent' # sent)
       => store' = store]_vars

\* export-passwords has failed on a wrong password after a decrypt session has
\* signalled completion, over a vault that holds a record and a wrapped secret
C38_Witness ==
    /\ lastOp.op = "export-passwords"
    /\ lastOp.error = "decrypt"
    /\ sessions # <<>>
    /\ sessions[1].phase = "done"
    /\ Has(store.touchIdPassword)
    /\ Has(store.vault)
    /\ Len(Get(store.vault)) = 1

-----------------------------------------------------------------------------
(* The gates of the Touch ID handlers, checked under SpecTouch *)

\* C39. Biometric unlock is gated by the enabled flag: while the stored flag
\* is not true, a call of unlock-with-touch-id replies { success: false }
\* ('Touch ID not enabled') at once, no prompt is awaited for it, it returns
\* no password and it changes neither the store nor the key cache; no call of
\* unlock-with-touch-id that replies while the flag is not true succeeds.  A
\* call of enable-touch-id for which canPromptTouchID() answers false replies
\* with a failure, awaits no prompt and stores nothing.
C39_Gated ==
    [][/\ (UnlockWithTouchIdCall /\ ~checkTouchIdEnabled) =>
             /\ lastOp' = Fail("unlock-with-touch-id", "Touch ID not enabled")
             /\ awaiting' = awaiting
             /\ store' = store
             /\ keyCache' = keyCache
       /\ (~checkTouchIdEnabled /\ Len(awaiting') > Len(awaiting)) =>
             awaiting'[Len(awaiting')].op # "unlock-with-touch-id"
       /\ (IsCall("unlock-with-touch-id") /\ ~checkTouchIdEnabled) =>
             ~lastOp'.ok /\ lastOp'.pw = "-"
       /\ \A pw \in Passwords :
             EnableTouchIdCall(pw, FALSE) =>
                /\ lastOp' = Fail("enable-touch-id", "Touch ID not available")
                /\ awaiting' = awaiting
                /\ store' = store]_vars

\* unlock-with-touch-id was refused on a store whose flag was set and then
\* cleared by disable-touch-id, with no prompt pending
C39_Witness ==
    /\ lastOp.op = "unlock-with-touch-id"
    /\ lastOp.error = "Touch ID not enabled"
    /\ store.touchIdEnabled = Some(FALSE)
    /\ Has(store.vaultCheck)
    /\ awaiting = <<>>

-----------------------------------------------------------------------------
(* The number of batches of a session, checked under SpecPipeline *)

\* the events sent for a session, in the order sent
EventsOf(sid) == LET Mine(e) == e.sid = sid IN SelectSeq(sent, Mine)

\* C35. No empty batch is ever emitted: every 'passwords-batch' event holds a
\* record, a session over N records has sent at most ceil(N / 10) of them, a
\* session that has sent one has a record that decrypts under its password,
\* and a session that has ended without any such record (a wrong password)
\* has sent the completion signal and nothing else.
C35_NoEmptyBatch ==
    \A sid \in 1..Len(sessions) :
        LET s == sessions[sid]
            ev == BatchEvents(sid)
        IN  /\ \A x \in 1..Len(ev) : ev[x].items # <<>>
            /\ Len(ev) * batchSize < Len(s.vault) + batchSize
            /\ ev # <<>> => \E j \in 1..Len(s.vault) : Readable(s.vault[j], s.pw)
            /\ (s.phase = "done" /\ ev = <<>>) =>
                  EventsOf(sid) = <<Event("passwords-complete", sid, <<>>)>>

\* a session over more than two chunks has ended under a password that
\* decrypts none of the records: it sent the completion signal only
C35_Witness ==
    /\ Len(sessions) = 1
    /\ sessions[1].phase = "done"
    /\ sessions[1].pw = "pw2"
    /\ Len(sessions[1].vault) > 2 * batchSize
    /\ \A j \in 1..Len(sessions[1].vault) : ~Readable(sessions[1].vault[j], "pw2")
    /\ sent = <<Event("passwords-complete", 1, <<>>)>>

-----------------------------------------------------------------------------
(* import-passwords on files of entries that differ *)

\* the sites of the entries of a CSV file
ImportSites == {"a.com", "b.com"}

\* what parseCSV returns: the entries of the file, in file order
ImportFiles == UNION {[1..n -> [site : ImportSites]] : n \in 0..MaxImport}

\* a vault created with "pw1", with no record or with one
InitImport ==
    LET e == encrypt(<<>>, VaultCheckText, "pw1", "s1", "iv1") IN
    /\ \E n \in 0..1 :
          store = [EmptyStore EXCEPT !.vaultCheck = Some(e.env),
                                     !.vault = Some(StoredVault(n, "pw1", {}))]
    /\ keyCache = e.cache
    /\ now = 1
    /\ sessions = <<>>
    /\ sent = <<>>
    /\ lastOp = NoOp
    /\ initPw = "pw1"
    /\ awaiting = <<>>
    /\ renderer = NoRenderer
    /\ probe = NoProbe

\* the dialog of the k-th suspended call resolves: the rest of
\* import-passwords, with the answer of the dialog and the entries parsed
\* recorded as the last direct call (history)
ImportResolveFile(k, dialog, passwords, ts, rs, ss, ivs) ==
    /\ awaiting[k].op = "import-passwords"
    /\ ImportPasswords(awaiting[k].pw, dialog, passwords, ts, rs, ss, ivs)
    /\ awaiting' = RemoveAt(awaiting, k)
    /\ probe' = [probe EXCEPT !.fn = "import-passwords", !.pw = awaiting[k].pw,
                              !.edit = dialog, !.text = passwords]
    /\ UNCHANGED renderer

\* Math.random() is taken as 0 here: the ids of the entries differ by their
\* clock instants only
NextImport ==
    \/ \E id \in IdInputs : DeletePassword(id) /\ MainOnly
    \/ awaiting = <<>> /\ ImportCall("pw1")
    \/ \E k \in 1..Len(awaiting), dialog \in {"canceled", "unreadable", "file"} :
       \E passwords \in (IF dialog = "file" THEN ImportFiles ELSE {<<>>}) :
          \E ts \in Clocks(Len(passwords)),
             rs \in {[j \in 1..Len(passwords) |-> 0]},
             ss \in [1..Len(passwords) -> Salts],
             ivs \in [1..Len(passwords) -> IVs] :
             ImportResolveFile(k, dialog, passwords, ts, rs, ss, ivs)

SpecImport == InitImport /\ [][NextImport]_vars

\* C36. Import is all-or-nothing: when the dialog gives a file that parses to
\* at least one entry, import-passwords returns success with count the number
\* of entries, and the collection stored afterwards is the collection stored
\* before followed by one record per entry, in file order, each decrypting
\* under the password of the call to its entry; when the dialog is cancelled,
\* the file cannot be read or no entry is parsed, it returns success: false
\* with count 0 and stores nothing.  Nothing but the collection is written.
C36_AllOrNothing ==
    [][IsCall("import-passwords") =>
          LET old == VaultOrEmpty
              new == VaultOrEmpty'
              dialog == probe'.edit
              passwords == probe'.text
              n == Len(passwords)
          IN  IF dialog = "file" /\ n > 0
              THEN /\ lastOp'.ok
                   /\ lastOp'.total = n
                   /\ Len(new) = Len(old) + n
                   /\ SubSeq(new, 1, Len(old)) = old
                   /\ \A j \in 1..n :
                         decrypt(<<>>, Some(new[Len(old) + j].data), probe'.pw).res
                            = Some(JSONstringify(passwords[j]))
                   /\ store' = [store EXCEPT !.vault = Some(new)]
              ELSE /\ ~lastOp'.ok
                   /\ lastOp'.total = 0
                   /\ store' = store]_vars

\* an import has stored the two entries of a file, which differ, as the two
\* records of the collection
C36_Witness ==
    /\ lastOp.op = "import-passwords"
    /\ lastOp.ok
    /\ lastOp.total = MaxImport
    /\ Len(VaultOrEmpty) = MaxImport
    /\ VaultOrEmpty[1].data # VaultOrEmpty[2].data

-----------------------------------------------------------------------------
(* A decrypt session while other handlers write the collection *)

\* the ids the writers are called with: those of the first record and of the
\* first record of the second chunk of the vault stored at startup
WriterIds == {RandScale, (batchSize + 1) * RandScale} \cap Ids(VaultOrEmpty)

\* a vault of "pw1" of one record, or of one chunk and one record
InitSnapshot ==
    /\ \E n \in {1, batchSize + 1} :
          store = [EmptyStore EXCEPT !.vault = Some(StoredVault(n, "pw1", {})),
                                     !.vaultCheck = Some(GoodCheck)]
    /\ keyCache = <<>>
    /\ now = 1
    /\ sessions = <<>>
    /\ sent = <<>>
    /\ lastOp = NoOp
    /\ initPw = "-"
    /\ awaiting = <<>>
    /\ renderer = NoRenderer
    /\ probe = NoProbe

NextSnapshot ==
    \/ sessions = <<>> /\ GetPasswords("pw1") /\ MainOnly
    \/ \E sid \in 1..Len(sessions) :
          \E ck \in DOMAIN sessions[sid].left : DeriveCallback(sid, ck) /\ MainOnly
    \/ \E sid \in 1..Len(sessions) : EmitBatch(sid) /\ MainOnly
    \/ \E sid \in 1..Len(sessions) : TimerFire(sid) /\ MainOnly
    \/ \E p \in Payloads, salt \in Salts, iv \in IVs :
          SavePassword("pw1", p, salt, iv) /\ MainOnly
    \/ \E id \in WriterIds : DeletePassword(id) /\ MainOnly
    \/ \E id \in WriterIds, p \in Payloads, salt \in Salts, iv \in IVs :
          UpdatePassword("pw1", id, p, salt, iv) /\ MainOnly
    \/ ClearVault("pw1") /\ MainOnly

SpecSnapshot == InitSnapshot /\ [][NextSnapshot]_vars

\* C32. Snapshot isolation of a decrypt session: the collection a session
\* works on is the collection that was stored when get-passwords was called
\* and never changes; a save, update, delete or clear sends nothing and leaves
\* every session where it was; every batch a session sends is made of the
\* readable records of the next chunk of 10 of that collection, whatever is
\* stored when it is sent; and a session that has ended has sent every
\* readable record of that collection and nothing else.
C32_Snapshot ==
    [][/\ \A sid \in 1..Len(sessions) :
             /\ sid <= Len(sessions')
             /\ sessions'[sid].vault = sessions[sid].vault
       /\ Len(sessions') > Len(sessions) =>
             /\ IsCall("get-passwords")
             /\ sessions'[Len(sessions')].vault = VaultOrEmpty
       /\ store' # store => sessions' = sessions /\ sent' = sent
       /\ sent' # sent =>
             LET e == sent'[Len(sent')]
                 s == sessions[e.sid]
             IN  /\ sent' = Append(sent, e)
                 /\ e.ch = "passwords-batch" =>
                       e.items = PlainChunk(s.vault, s.pw, s.i \div batchSize)
                 /\ e.ch = "passwords-complete" =>
                       Emitted(e.sid) = PlainFrom(s.vault, s.pw, 1, Len(s.vault))]_vars

\* delete-password has removed the first record of the second chunk while the
\* session, which has sent its first batch, is decrypting the second chunk
C32_Witness ==
    /\ Len(sessions) = 1
    /\ sessions[1].i = batchSize
    /\ sessions[1].phase = "deriving"
    /\ Len(BatchEvents(1)) = 1
    /\ lastOp.op = "delete-password"
    /\ lastOp.found
    /\ lastOp.id = sessions[1].vault[batchSize + 1].id
    /\ lastOp.id \notin Ids(VaultOrEmpty)

-----------------------------------------------------------------------------
(* The renderer with both ways to unlock, and the event loop running *)

\* what 'unlock-with-touch-id' returns once its prompt has settled, and the
\* cache it leaves.  prompt is "resolved" or "rejected"; available says
\* whether safeStorage can unseal.
unlockWithTouchId(cache, prompt, available) ==
    LET encryptedBase64 == store.touchIdPassword
        masterPassword ==
            IF Has(encryptedBase64) /\ available
            THEN decryptString(fromBase64(Get(encryptedBase64)))
            ELSE None
        failed(error) == [ok |-> FALSE, pw |-> "-", error |-> error, cache |-> cache]
    IN  IF ~(Has(store.touchIdEnabled) /\ Get(store.touchIdEnabled))
        THEN failed("Touch ID not enabled")
        ELSE IF prompt = "rejected" THEN failed("prompt")
        ELSE IF ~Has(masterPassword) THEN failed("unwrap")
        ELSE LET d == decrypt(cache, store.vaultCheck, Get(masterPassword)) IN
             IF ~Has(d.res)
             THEN [failed("decrypt") EXCEPT !.cache = d.cache]
             ELSE IF Get(d.res) # VaultCheckText
             THEN [failed("Stored password invalid") EXCEPT !.cache = d.cache]
             ELSE [ok |-> TRUE, pw |-> Get(masterPassword), error |-> "-",
                   cache |-> d.cache]

\* handleTouchIdUnlock up to await unlockWithTouchId, with the handler of
\* unlock-with-touch-id and its prompt: the renderer, which shows no form
\* while loading, makes no other call meanwhile.  The button is rendered on
\* the unlock screen while loading is false and Touch ID is enabled.  What
\* follows the reply is what follows the reply of unlockVault in
\* handleUnlock, with the password the handler returned.
HandleTouchIdUnlock(prompt, available) ==
    LET u == unlockWithTouchId(keyCache, prompt, available) IN
    /\ renderer.screen = "unlock"
    /\ ~renderer.loading
    /\ renderer.pc = "idle"
    /\ Len(renderer.pendingItems) < MaxUnlocks
    /\ checkTouchIdEnabled
    /\ keyCache' = u.cache
    /\ lastOp' = IF u.ok THEN Op("unlock-with-touch-id", u.pw, 0, FALSE, TRUE, 0)
                 ELSE Fail("unlock-with-touch-id", u.error)
    /\ renderer' = [renderer EXCEPT
                       !.masterPassword = IF u.ok THEN u.pw ELSE @,
                       !.loading = TRUE,
                       !.pc = "unlockVault",
                       !.replies = <<[after |-> Len(sent), ok |-> u.ok, total |-> 0]>>]
    /\ UNCHANGED <<store, now, sessions, sent, initPw, awaiting, probe>>

\* a vault of "pw1" with up to MaxRecords records, its check envelope under a
\* salt of its own, its Touch ID fields, the App on its unlock screen
InitRendererLive ==
    /\ \E n \in 0..MaxRecords, t \in StoredTouchIds :
          store = [vault |-> Some(StoredVault(n, "pw1", {})),
                   vaultCheck |-> Some(encrypt(<<>>, VaultCheckText, "pw1",
                                               "s0", "iv1").env),
                   touchIdPassword |-> t.password,
                   touchIdEnabled |-> t.enabled]
    /\ keyCache = <<>>
    /\ now = 1
    /\ sessions = <<>>
    /\ sent = <<>>
    /\ lastOp = NoOp
    /\ initPw = "pw1"
    /\ awaiting = <<>>
    /\ renderer = NoRenderer
    /\ probe = NoProbe

NextRendererLive ==
    \/ \E pw \in Passwords : HandleUnlock(pw)
    \/ \E prompt \in {"resolved", "rejected"}, available \in BOOLEAN :
          HandleTouchIdUnlock(prompt, available)
    \/ UnlockVaultReplied
    \/ InvokeGetPasswords
    \/ GetPasswordsReplied
    \/ Dispatch
    \/ HandleLock
    \/ LoopStep

\* The main process runs every callback that is due, ipcRenderer dispatches
\* every message that has arrived, and handleUnlock goes on after each reply;
\* the user may or may not press a button.
SpecRendererLive ==
    /\ InitRendererLive
    /\ [][NextRendererLive]_vars
    /\ WF_vars(LoopStep)
    /\ WF_vars(Dispatch)
    /\ WF_vars(UnlockVaultReplied)
    /\ WF_vars(InvokeGetPasswords)
    /\ WF_vars(GetPasswordsReplied)

\* the c-th successful unlock has a listener registered
Registered(c) ==
    \E l \in 1..Len(renderer.listeners) : renderer.listeners[l].c = c

\* C37. Renderer loading state terminates: once an unlock (by password or by
\* Touch ID) has succeeded and registered its two listeners, the renderer
\* reaches a state in which both are removed and loading is false; the
\* listeners are registered when get-passwords is invoked; every batch that
\* is dispatched is pushed on the items of the unlock that is under way; and
\* when the completion signal is dispatched the items accumulated are the
\* items the session has sent.
C37_LoadingEnds ==
    /\ \A c \in 1..MaxUnlocks :
          Registered(c) ~> (~Registered(c) /\ ~renderer.loading)
    /\ [][/\ Len(sessions') > Len(sessions) =>
                /\ Registered(Len(renderer.pendingItems))
                /\ renderer.delivered = Len(sent)
          /\ renderer'.delivered > renderer.delivered =>
                LET e == sent[renderer.delivered + 1]
                    c == Len(renderer.pendingItems)
                IN  /\ Registered(c)
                    /\ e.ch = "passwords-batch" =>
                          renderer'.pendingItems[c] =
                             renderer.pendingItems[c] \o Normalize(e.items)
                    /\ e.ch = "passwords-complete" =>
                          /\ renderer.pendingItems[c] = Normalize(Emitted(e.sid))
                          /\ ~renderer'.loading
                          /\ renderer'.listeners = <<>>]_vars

\* an unlock by Touch ID has loaded a vault of two records: the completion
\* signal has been dispatched, loading is over and no listener is left
C37_Witness ==
    /\ lastOp.op = "get-passwords"
    /\ renderer.masterPassword = "pw1"
    /\ checkTouchIdEnabled
    /\ Len(sessions) = 1
    /\ sessions[1].phase = "done"
    /\ renderer.delivered = Len(sent)
    /\ Len(renderer.items) = 2
    /\ ~renderer.loading
    /\ renderer.listeners = <<>>
    /\ renderer.screen = "vault"

\* C33, its case: a second decrypt session that starts while an earlier one
\* is still running.  The unlock form and the Touch ID button are rendered
\* only while loading is false, and loading stays true from an unlock until
\* the completion signal of its session has been dispatched: whenever an
\* unlock is under way or a session is started, every earlier session has
\* ended and every event it sent has been dispatched.  No reachable state has
\* two sessions of which the earlier is still running.
C33_SessionsInTurn ==
    /\ \A sid \in 1..(Len(sessions) - 1) : sessions[sid].phase = "done"
    /\ renderer.pc \in {"unlockVault", "invoke"} =>
          /\ \A sid \in 1..Len(sessions) : sessions[sid].phase = "done"
          /\ renderer.delivered = Len(sent)
          /\ \A l \in 1..Len(renderer.listeners) :
                renderer.listeners[l].c = Len(renderer.pendingItems)

====
